---- MODULE Spec2Model ----
(***************************************************************************)
(* Model of the tag graph engine of raphaelsty/knowledge:                  *)
(*   knowledge_database/graph/graph.py        (class Graph)                *)
(*   knowledge_database/pipeline/pipeline.py  (class Pipeline)             *)
(*   knowledge_database/tags/tags.py          (get_tags_triples)           *)
(*   api/api.py                               (the request handlers)       *)
(* The graph is a networkx.Graph: an insertion-ordered adjacency mapping.  *)
(* Graph.yens iterates networkx.shortest_simple_paths (Yen's algorithm on  *)
(* top of the bidirectional breadth-first search), Graph.walk iterates     *)
(* networkx.all_neighbors; both are modelled as the library computes them. *)
(***************************************************************************)
EXTENDS Integers, Sequences, FiniteSets, TLC

VARIABLES triples, idx_to_node, node_to_idx, graph, document_counts,
          documents, excluded_tags, latest_documents, pipeline, requests, op, args,
          ret

vars == <<triples, idx_to_node, node_to_idx, graph, document_counts,
          documents, excluded_tags, latest_documents, pipeline, requests, op, args,
          ret>>

(***************************************************************************)
(* Bounds of the model.                                                    *)
(***************************************************************************)
\* longest triple sequence a graph is built from
MaxTriples == 3
\* largest k given to yens / walk (k_yens, k_walk)
MaxK == 1
\* longest list of document tags given to __call__
MaxTags == 2
\* longest list of retrieved (query) tags given to __call__
MaxRetrieved == 1

\* tag names, in the order in which the model lets them first appear
TagOrder == <<"a", "b", "c", "d">>
Tags == {TagOrder[i] : i \in 1..Len(TagOrder)}
\* a tag name that occurs in no triple
UnknownTag == "z"

\* Python's None, for an absent index / predecessor
None == -1

\* knowledge.pipeline once the Pipeline is assigned to it (None before): the
\* reference to the one Pipeline object
PipelineObject == 0

(***************************************************************************)
(* Sequence helpers.                                                       *)
(***************************************************************************)
Range(s) == {s[i] : i \in 1..Len(s)}

InSeq(x, s) == \E i \in 1..Len(s) : s[i] = x

\* dict insertion of keys: keep the first occurrence of every element
RECURSIVE Dedup(_, _)
Dedup(s, acc) ==
    IF s = <<>> THEN acc
    ELSE Dedup(Tail(s), IF InSeq(Head(s), acc) THEN acc ELSE Append(acc, Head(s)))

SeqsUpTo(S, n) == UNION {[1..m -> S] : m \in 0..n}

(***************************************************************************)
(* Graph.__init__                                                          *)
(***************************************************************************)
\* nodes = {**{head: True}, **{tail: True}}: heads first, then new tails
NodesOf(ts) ==
    Dedup([i \in 1..Len(ts) |-> ts[i].head] \o [i \in 1..Len(ts) |-> ts[i].tail], <<>>)

\* faulty variant: the indices are numbered from 1
EnumerateFromOne(nodes) == [i \in 1..Len(nodes) |-> nodes[i]]

\* dict(enumerate(nodes)): indices start at 0
Enumerate(nodes) == [i \in 0..(Len(nodes) - 1) |-> nodes[i + 1]]

\* idx_to_node = dict(enumerate(nodes))
IdxToNode(ts) == Enumerate(NodesOf(ts))

\* the inverse of a dict index -> node (a later index wins a repeated node)
InverseOf(i2n) ==
    [t \in {i2n[i] : i \in DOMAIN i2n} |->
        CHOOSE i \in DOMAIN i2n :
            /\ i2n[i] = t
            /\ \A j \in DOMAIN i2n : i2n[j] = t => j <= i]

\* node_to_idx = {node: idx for idx, node in idx_to_node.items()}
NodeToIdx(ts) == InverseOf(IdxToNode(ts))

\* networkx.Graph.add_edge(u, v): both nodes are created when missing, and
\* each end is entered in the other's adjacency dict (a key already there
\* keeps its place).
AddNode(g, u) == IF u \in DOMAIN g THEN g ELSE g @@ (u :> <<>>)

AddAdj(g, u, v) == IF InSeq(v, g[u]) THEN g ELSE [g EXCEPT ![u] = Append(@, v)]

add_edge(g, u, v) == AddAdj(AddAdj(AddNode(AddNode(g, u), v), u, v), v, u)

\* self.graph = nx.Graph()
EmptyGraph == [n \in {} |-> <<>>]

\* self.graph.add_edge(head, tail); self.graph.add_edge(tail, head)
AddTripleEdges(g, h, t) == add_edge(add_edge(g, h, t), t, h)

\* for triple in triples: ...   (the first edges go into the empty graph, the
\* later ones into the graph built so far)
RECURSIVE BuildGraph(_, _, _)
BuildGraph(ts, n2i, g) ==
    IF ts = <<>> THEN g
    ELSE IF DOMAIN g = {}
    THEN BuildGraph(Tail(ts), n2i,
                    AddTripleEdges(EmptyGraph, n2i[Head(ts).head], n2i[Head(ts).tail]))
    ELSE BuildGraph(Tail(ts), n2i,
                    AddTripleEdges(g, n2i[Head(ts).head], n2i[Head(ts).tail]))

\* networkx degree: the number of adjacency entries, a self-loop counted twice
degree(g, n) == Len(g[n]) + (IF InSeq(n, g[n]) THEN 1 ELSE 0)

\* networkx.all_neighbors(G, n) of an undirected graph: iter(G.adj[n])
all_neighbors(g, n) == g[n]

(***************************************************************************)
(* Graph.walk                                                              *)
(***************************************************************************)
\* the loop  for n, node in enumerate(...): append; if n > k: return
\* (n is 0-based; nb[n + 1] is the n-th neighbour)
RECURSIVE WalkLoop(_, _, _, _)
WalkLoop(nb, n, k, neighbours) ==
    IF n >= Len(nb) THEN neighbours
    ELSE LET appended == Append(neighbours, nb[n + 1])
         IN  IF n > k THEN appended ELSE WalkLoop(nb, n + 1, k, appended)

walk(g, start, k) == WalkLoop(all_neighbors(g, start), 0, k, <<start>>)

(***************************************************************************)
(* networkx.shortest_simple_paths, as iterated by Graph.yens.              *)
(***************************************************************************)
\* Gsucc / Gpred of the search: the neighbours of v, in adjacency order,
\* without the ignored nodes and the ignored edges (either direction)
FilteredNeighbors(g, v, ignore_nodes, ignore_edges) ==
    SelectSeq(g[v], LAMBDA w : /\ w \notin ignore_nodes
                               /\ <<v, w>> \notin ignore_edges
                               /\ <<w, v>> \notin ignore_edges)

\* for w in Gsucc(v): if w not in pred: fringe.append(w); pred[w] = v
\*                    if w in succ: return pred, succ, w
\* (mine / other are pred / succ in the forward direction, succ / pred in
\* the reverse direction)
RECURSIVE ScanNeighbors(_, _, _, _, _, _)
ScanNeighbors(nb, j, v, mine, other, fringe) ==
    IF j > Len(nb) THEN [hit |-> None, mine |-> mine, fringe |-> fringe]
    ELSE LET w == nb[j]
             seen == w \in DOMAIN mine
             mine1 == IF seen THEN mine ELSE mine @@ (w :> v)
             fringe1 == IF seen THEN fringe ELSE Append(fringe, w)
         IN  IF w \in DOMAIN other
             THEN [hit |-> w, mine |-> mine1, fringe |-> fringe1]
             ELSE ScanNeighbors(nb, j + 1, v, mine1, other, fringe1)

\* for v in this_level: ...   (ScanLevelNext: after the neighbours of
\* level[i], with r the outcome of their scan)
RECURSIVE ScanLevel(_, _, _, _, _, _, _, _), ScanLevelNext(_, _, _, _, _, _, _)
ScanLevel(g, ignore_nodes, ignore_edges, level, i, mine, other, fringe) ==
    IF i > Len(level) THEN [hit |-> None, mine |-> mine, fringe |-> fringe]
    ELSE ScanLevelNext(g, ignore_nodes, ignore_edges, level, i, other,
             ScanNeighbors(FilteredNeighbors(g, level[i], ignore_nodes, ignore_edges),
                           1, level[i], mine, other, fringe))

ScanLevelNext(g, ignore_nodes, ignore_edges, level, i, other, r) ==
    IF r.hit # None THEN r
    ELSE ScanLevel(g, ignore_nodes, ignore_edges, level, i + 1, r.mine, other, r.fringe)

\* while forward_fringe and reverse_fringe: expand the smaller fringe
\* (the forward one on a tie); falling out of the loop raises NetworkXNoPath.
\* ForwardStep / ReverseStep: after one level, with r the outcome of its scan.
RECURSIVE FringeSearch(_, _, _, _, _, _, _), ForwardStep(_, _, _, _, _, _, _),
          ReverseStep(_, _, _, _, _, _, _)
FringeSearch(g, ignore_nodes, ignore_edges, pred, succ, forward_fringe, reverse_fringe) ==
    IF forward_fringe = <<>> \/ reverse_fringe = <<>>
    THEN [found |-> FALSE, pred |-> pred, succ |-> succ, w |-> None]
    ELSE IF Len(forward_fringe) <= Len(reverse_fringe)
    THEN ForwardStep(g, ignore_nodes, ignore_edges, pred, succ, reverse_fringe,
             ScanLevel(g, ignore_nodes, ignore_edges, forward_fringe, 1, pred, succ, <<>>))
    ELSE ReverseStep(g, ignore_nodes, ignore_edges, pred, succ, forward_fringe,
             ScanLevel(g, ignore_nodes, ignore_edges, reverse_fringe, 1, succ, pred, <<>>))

ForwardStep(g, ignore_nodes, ignore_edges, pred, succ, reverse_fringe, r) ==
    IF r.hit # None
    THEN [found |-> TRUE, pred |-> r.mine, succ |-> succ, w |-> r.hit]
    ELSE FringeSearch(g, ignore_nodes, ignore_edges, r.mine, succ, r.fringe, reverse_fringe)

ReverseStep(g, ignore_nodes, ignore_edges, pred, succ, forward_fringe, r) ==
    IF r.hit # None
    THEN [found |-> TRUE, pred |-> pred, succ |-> r.mine, w |-> r.hit]
    ELSE FringeSearch(g, ignore_nodes, ignore_edges, pred, r.mine, forward_fringe, r.fringe)

\* networkx _bidirectional_pred_succ
bidirectional_pred_succ(g, source, target, ignore_nodes, ignore_edges) ==
    IF source \in ignore_nodes \/ target \in ignore_nodes
    THEN [found |-> FALSE, pred |-> <<>>, succ |-> <<>>, w |-> None]
    ELSE IF target = source
    THEN [found |-> TRUE, pred |-> (target :> None), succ |-> (source :> None),
          w |-> source]
    ELSE FringeSearch(g, ignore_nodes, ignore_edges,
                      (source :> None), (target :> None), <<source>>, <<target>>)

\* while w is not None: path.append(w); w = succ[w]
RECURSIVE FollowSucc(_, _)
FollowSucc(succ, w) ==
    IF w = None THEN <<>> ELSE <<w>> \o FollowSucc(succ, succ[w])

\* while w is not None: path.insert(0, w); w = pred[w]
RECURSIVE FollowPred(_, _)
FollowPred(pred, w) ==
    IF w = None THEN <<>> ELSE FollowPred(pred, pred[w]) \o <<w>>

\* build path from pred + w + succ
PathThrough(r) ==
    IF ~r.found THEN [found |-> FALSE, path |-> <<>>]
    ELSE [found |-> TRUE,
          path |-> FollowPred(r.pred, r.pred[r.w]) \o FollowSucc(r.succ, r.w)]

\* networkx _bidirectional_shortest_path; found = FALSE is NetworkXNoPath
bidirectional_shortest_path(g, source, target, ignore_nodes, ignore_edges) ==
    PathThrough(bidirectional_pred_succ(g, source, target, ignore_nodes, ignore_edges))

\* PathBuffer.push: a path already in the buffer is not entered again; the
\* buffer is kept in push order (the heap's counter)
PathBufferPush(buf, cost, path) ==
    IF \E i \in 1..Len(buf) : buf[i].path = path THEN buf
    ELSE Append(buf, [cost |-> cost, path |-> path])

\* PathBuffer.pop: the entry of least (cost, counter)
PathBufferMin(buf) ==
    CHOOSE i \in 1..Len(buf) :
        \A j \in 1..Len(buf) :
            buf[i].cost < buf[j].cost \/ (buf[i].cost = buf[j].cost /\ i <= j)

RemoveAt(s, i) == SubSeq(s, 1, i - 1) \o SubSeq(s, i + 1, Len(s))

\* for path in listA: if path[:i] == root: ignore_edges.add((path[i-1], path[i]))
\* (root = prev_path[:i]; 1-based, the edge is <<path[i], path[i + 1]>>)
RootEdges(listA, prev_path, i) ==
    {<<listA[n][i], listA[n][i + 1]>> :
        n \in {m \in 1..Len(listA) :
                 Len(listA[m]) > i /\ SubSeq(listA[m], 1, i) = SubSeq(prev_path, 1, i)}}

\* for i in range(1, len(prev_path)): one spur search per root prev_path[:i].
\* SpurSearch: with the ignored edges of this root; SpurPush: with r the
\* outcome of the spur search (found = FALSE: NetworkXNoPath, passed over).
RECURSIVE SpurLoop(_, _, _, _, _, _, _, _), SpurSearch(_, _, _, _, _, _, _, _),
          SpurPush(_, _, _, _, _, _, _, _, _)
SpurLoop(g, target, prev_path, listA, i, ignore_nodes, ignore_edges, listB) ==
    IF i > Len(prev_path) - 1 THEN listB
    ELSE SpurSearch(g, target, prev_path, listA, i, ignore_nodes,
                    ignore_edges \cup RootEdges(listA, prev_path, i), listB)

SpurSearch(g, target, prev_path, listA, i, ignore_nodes, ignore_edges, listB) ==
    SpurPush(g, target, prev_path, listA, i, ignore_nodes, ignore_edges, listB,
             bidirectional_shortest_path(g, prev_path[i], target,
                                         ignore_nodes, ignore_edges))

SpurPush(g, target, prev_path, listA, i, ignore_nodes, ignore_edges, listB, r) ==
    SpurLoop(g, target, prev_path, listA, i + 1,
             ignore_nodes \cup {prev_path[i]}, ignore_edges,
             IF r.found
             THEN PathBufferPush(listB, i + Len(r.path),
                                 SubSeq(prev_path, 1, i - 1) \o r.path)
             ELSE listB)

\* the generator's state before its first next()
SSPStart == [listA |-> <<>>, listB |-> <<>>, prev_path |-> <<>>]

\* path = listB.pop(); yield path; listA.append(path); prev_path = path
YieldAt(st, pushed, m) ==
    [kind |-> "yield", path |-> pushed[m].path,
     st |-> [listA |-> Append(st.listA, pushed[m].path),
             listB |-> RemoveAt(pushed, m),
             prev_path |-> pushed[m].path]]

\* if listB: ... else: break
PopNext(st, pushed) ==
    IF pushed = <<>> THEN [kind |-> "stop", path |-> <<>>, st |-> st]
    ELSE YieldAt(st, pushed, PathBufferMin(pushed))

\* the first search: NetworkXNoPath leaves the generator
FirstNext(st, first) ==
    IF ~first.found THEN [kind |-> "raise", path |-> <<>>, st |-> st]
    ELSE PopNext(st, PathBufferPush(st.listB, Len(first.path), first.path))

\* one next() of the generator shortest_simple_paths(G, source, target):
\* kind "yield" with the path, "stop" (StopIteration) or "raise"
\* (NetworkXNoPath of the first search)
shortest_simple_paths_next(g, source, target, st) ==
    IF st.prev_path = <<>>
    THEN FirstNext(st, bidirectional_shortest_path(g, source, target, {}, {}))
    ELSE PopNext(st, SpurLoop(g, target, st.prev_path, st.listA, 1, {}, {}, st.listB))

(***************************************************************************)
(* Graph.yens                                                              *)
(***************************************************************************)
\* if len(path) <= 3: paths.append(path)
MaxPathNodes == 3

\* faulty variant: the filter lets 4-node paths through
KeepPathUpTo4(path) == Len(path) <= MaxPathNodes + 1

\* faulty variant: the filter drops the single-node path
KeepPathNoTrivial(path) == Len(path) >= 2 /\ Len(path) <= MaxPathNodes

KeepPath(path) == Len(path) <= MaxPathNodes

\* if idx > k: break
YensBreak(idx, k) == idx > k

\* faulty variant: a kept path is put in front of the paths kept before it
YensKeepInFront(paths, path) == IF KeepPath(path) THEN <<path>> \o paths ELSE paths

\* if len(path) <= 3: paths.append(path)
YensKeep(paths, path) == IF KeepPath(path) THEN Append(paths, path) ELSE paths

\* for idx, path in enumerate(nx.shortest_simple_paths(...)): ...
\* examined counts the candidate paths taken from the enumeration.
\* YensStep: the loop body, with step the outcome of the generator's next().
RECURSIVE YensLoop(_, _, _, _, _, _, _), YensStep(_, _, _, _, _, _, _)
YensLoop(g, start, end, k, idx, st, paths) ==
    YensStep(g, start, end, k, idx, paths,
             shortest_simple_paths_next(g, start, end, st))

YensStep(g, start, end, k, idx, paths, step) ==
    IF step.kind = "raise"
    THEN [raised |-> TRUE, paths |-> paths, examined |-> idx]
    ELSE IF step.kind = "stop"
    THEN [raised |-> FALSE, paths |-> paths, examined |-> idx]
    ELSE IF YensBreak(idx, k)
    THEN [raised |-> FALSE, paths |-> YensKeep(paths, step.path),
          examined |-> idx + 1]
    ELSE YensLoop(g, start, end, k, idx + 1, step.st, YensKeep(paths, step.path))

\* faulty variant: yens swallows NetworkXNoPath and returns what it has
yensCatching(g, start, end, k) ==
    [YensLoop(g, start, end, k, 0, SSPStart, <<>>) EXCEPT !.raised = FALSE]

\* Graph.yens(start, end, k): raised = TRUE when NetworkXNoPath leaves it
yens(g, start, end, k) == YensLoop(g, start, end, k, 0, SSPStart, <<>>)

\* every candidate of the enumeration, in order (the generator run dry)
RECURSIVE AllSimplePaths(_, _, _, _, _), AllSimplePathsStep(_, _, _, _, _)
AllSimplePaths(g, start, end, st, acc) ==
    AllSimplePathsStep(g, start, end, acc,
                       shortest_simple_paths_next(g, start, end, st))

AllSimplePathsStep(g, start, end, acc, step) ==
    IF step.kind # "yield" THEN acc
    ELSE AllSimplePaths(g, start, end, step.st, Append(acc, step.path))

(***************************************************************************)
(* Graph.format_triples                                                    *)
(***************************************************************************)
\* faulty variant: the key keeps the direction in which the pair is met
SortedKeyAsMet(start, end) == <<start, end>>

\* key = tuple(sorted([start, end]))
SortedKey(start, end) == IF start <= end THEN <<start, end>> ELSE <<end, start>>

\* if key not in triples: triples[key] = 1  else: triples[key] += 1
\* (the dict keeps its keys in insertion order)
CountKey(counts, key) ==
    IF \E i \in 1..Len(counts) : counts[i].key = key
    THEN [i \in 1..Len(counts) |->
            IF counts[i].key = key
            THEN [key |-> key, count |-> counts[i].count + 1]
            ELSE counts[i]]
    ELSE Append(counts, [key |-> key, count |-> 1])

\* for start, end in zip(path[:-1], path[1:]): ...
RECURSIVE CountPath(_, _, _)
CountPath(path, i, counts) ==
    IF i >= Len(path) THEN counts
    ELSE CountPath(path, i + 1, CountKey(counts, SortedKey(path[i], path[i + 1])))

\* for path in paths: ...
RECURSIVE CountPaths(_, _)
CountPaths(paths, counts) ==
    IF paths = <<>> THEN counts
    ELSE CountPaths(Tail(paths), CountPath(Head(paths), 1, counts))

RECURSIVE MaxCount(_)
MaxCount(counts) ==
    IF counts = <<>> THEN 0
    ELSE LET m == MaxCount(Tail(counts))
         IN  IF Head(counts).count >= m THEN Head(counts).count ELSE m

\* faulty variant: the count of the first pair instead of the largest count
MaxWeightFirst(counts) == IF counts # <<>> THEN counts[1].count ELSE 1

\* max_weight = max(triples.values()) if triples else 1
MaxWeight(counts) == IF counts # <<>> THEN MaxCount(counts) ELSE 1

\* count / max_weight, kept as the exact quotient num / den
Quotient(count, max_weight) == [num |-> count, den |-> max_weight]

\* for (start, end), count in triples.items(): links.append({...})
Links(i2n, counts) ==
    [i \in 1..Len(counts) |->
        [source |-> i2n[counts[i].key[1]],
         relation |-> "link",
         target |-> i2n[counts[i].key[2]],
         value |-> counts[i].count,
         weight |-> Quotient(counts[i].count, MaxWeight(counts))]]

format_triples(i2n, paths) == Links(i2n, CountPaths(paths, <<>>))

(***************************************************************************)
(* Graph.__call__                                                          *)
(***************************************************************************)
SeedDocument == "#86E5FF"
SeedQuery == "#19bc8e"
PathIntermediate == "#FFFFFF"

\* dict.get(key, default)
DictGet(d, key, default) == IF key \in DOMAIN d THEN d[key] ELSE default

\* self.document_counts.get(tag, 0)
DocumentCount(dc, tag) == DictGet(dc, tag, 0)

HasId(nodes, id) == \E i \in 1..Len(nodes) : nodes[i].id = id

\* faulty variant: a key already present keeps its first value
SetNodeFirstWins(nodes, node) ==
    IF HasId(nodes, node.id) THEN nodes ELSE Append(nodes, node)

\* output_nodes[tag] = node: a key already present keeps its place in the
\* dict and takes the new value
SetNode(nodes, node) ==
    IF HasId(nodes, node.id)
    THEN [i \in 1..Len(nodes) |-> IF nodes[i].id = node.id THEN node ELSE nodes[i]]
    ELSE Append(nodes, node)

\* idx = self.node_to_idx.get(tag, None)
SeedIndex(n2i, tag) == DictGet(n2i, tag, None)

\* the body of  for tag in list_tag  (lines 133-144), idx being the index
SeedAt(g, dc, st, tag, color, idx) ==
    [nodes |-> IF idx = None THEN st.nodes ELSE Append(st.nodes, idx),
     lonely |-> IF idx = None THEN Append(st.lonely, tag) ELSE st.lonely,
     output_nodes |->
         SetNode(st.output_nodes,
                 [id |-> tag, color |-> color,
                  degree |-> IF idx = None THEN 0 ELSE degree(g, idx),
                  documentCount |-> DocumentCount(dc, tag)])]

\* the body of  for tag in list_tag  (lines 132-144)
SeedTag(g, n2i, dc, st, tag, color) ==
    SeedAt(g, dc, st, tag, color, SeedIndex(n2i, tag))

RECURSIVE SeedList(_, _, _, _, _, _)
SeedList(g, n2i, dc, st, list_tag, color) ==
    IF list_tag = <<>> THEN st
    ELSE SeedList(g, n2i, dc, SeedTag(g, n2i, dc, st, Head(list_tag), color),
                  Tail(list_tag), color)

\* for list_tag, color in [(tags, "#86E5FF"), (retrieved_tags, "#19bc8e")]
Seeds(g, n2i, dc, tags, retrieved_tags) ==
    SeedList(g, n2i, dc,
             SeedList(g, n2i, dc,
                      [nodes |-> <<>>, lonely |-> <<>>, output_nodes |-> <<>>],
                      tags, SeedDocument),
             retrieved_tags, SeedQuery)

\* itertools.combinations(nodes, 2): the pairs of positions i < j, in
\* lexicographic order
RECURSIVE CombinationsFrom(_, _, _)
CombinationsFrom(nodes, i, j) ==
    IF i >= Len(nodes) THEN <<>>
    ELSE IF j > Len(nodes) THEN CombinationsFrom(nodes, i + 1, i + 2)
    ELSE <<(<<nodes[i], nodes[j]>>)>> \o CombinationsFrom(nodes, i, j + 1)

Combinations2(nodes) == CombinationsFrom(nodes, 1, 2)

\* faulty variant: the exception of a failed search is not caught
ExceptNotCaught == FALSE

\* except Exception: continue
ExceptCatches == TRUE

\* the loop of lines 150-156; raised = TRUE when an exception leaves it.
\* PairResult: after the search of the first pair, with r its outcome.
RECURSIVE PairPaths(_, _, _, _), PairResult(_, _, _, _, _)
PairPaths(g, pairs, k_yens, paths) ==
    IF pairs = <<>> THEN [raised |-> FALSE, paths |-> paths]
    ELSE IF Head(pairs)[1] = Head(pairs)[2]
    THEN PairPaths(g, Tail(pairs), k_yens, paths)
    ELSE PairResult(g, pairs, k_yens, paths,
                    yens(g, Head(pairs)[1], Head(pairs)[2], k_yens))

PairResult(g, pairs, k_yens, paths, r) ==
    IF r.raised
    THEN IF ExceptCatches THEN PairPaths(g, Tail(pairs), k_yens, paths)
         ELSE [raised |-> TRUE, paths |-> paths]
    ELSE PairPaths(g, Tail(pairs), k_yens, paths \o r.paths)

\* faulty variant: the fallback runs for a single seed only
WalkFallbackSingleOnly(nodes, paths) == Len(nodes) = 1

\* if len(nodes) == 1 or len(paths) == 0
WalkFallback(nodes, paths) == Len(nodes) = 1 \/ Len(paths) = 0

\* for start in nodes: paths.append(self.walk(start=start, k=k_walk))
WalkPaths(g, nodes, k_walk) == [i \in 1..Len(nodes) |-> walk(g, nodes[i], k_walk)]

\* faulty variant: a tag met in a path always becomes an intermediate node
AddIntermediateAlways(g, dc, output_nodes, node_idx, node_name) ==
    SetNode(output_nodes,
            [id |-> node_name, color |-> PathIntermediate,
             degree |-> degree(g, node_idx),
             documentCount |-> DocumentCount(dc, node_name)])

\* if node_name not in output_nodes: output_nodes[node_name] = {...}
AddIntermediate(g, dc, output_nodes, node_idx, node_name) ==
    IF HasId(output_nodes, node_name) THEN output_nodes
    ELSE Append(output_nodes,
                [id |-> node_name, color |-> PathIntermediate,
                 degree |-> degree(g, node_idx),
                 documentCount |-> DocumentCount(dc, node_name)])

\* for node_idx in path: ...
RECURSIVE IntermediatePath(_, _, _, _, _)
IntermediatePath(g, i2n, dc, path, output_nodes) ==
    IF path = <<>> THEN output_nodes
    ELSE IntermediatePath(g, i2n, dc, Tail(path),
             AddIntermediate(g, dc, output_nodes, Head(path), i2n[Head(path)]))

\* for path in paths: ...
RECURSIVE IntermediateNodes(_, _, _, _, _)
IntermediateNodes(g, i2n, dc, paths, output_nodes) ==
    IF paths = <<>> THEN output_nodes
    ELSE IntermediateNodes(g, i2n, dc, Tail(paths),
                           IntermediatePath(g, i2n, dc, Head(paths), output_nodes))

\* lines 163-175: the response built from the collected paths
Response(g, i2n, dc, seeded, searched, walked, paths) ==
    [raised |-> FALSE,
     nodes |-> IntermediateNodes(g, i2n, dc, paths, seeded.output_nodes),
     links |-> format_triples(i2n, paths),
     seeds |-> seeded.nodes, lonely |-> seeded.lonely,
     searched |-> searched.paths, walked |-> walked, paths |-> paths]

\* lines 158-161: the fallback, walked telling whether it runs
Collect(g, i2n, dc, k_walk, seeded, searched, walked) ==
    Response(g, i2n, dc, seeded, searched, walked,
             IF walked THEN searched.paths \o WalkPaths(g, seeded.nodes, k_walk)
             ELSE searched.paths)

\* after the pairwise search (an exception that left it leaves __call__)
Searched(g, i2n, dc, k_walk, seeded, searched) ==
    IF searched.raised
    THEN [raised |-> TRUE, nodes |-> <<>>, links |-> <<>>,
          seeds |-> seeded.nodes, lonely |-> seeded.lonely,
          searched |-> searched.paths, walked |-> FALSE, paths |-> <<>>]
    ELSE Collect(g, i2n, dc, k_walk, seeded, searched,
                 WalkFallback(seeded.nodes, searched.paths))

\* lines 146-156: if len(nodes) >= 2: the pairwise searches
Search(g, i2n, dc, k_yens, k_walk, seeded) ==
    Searched(g, i2n, dc, k_walk, seeded,
             IF Len(seeded.nodes) >= 2
             THEN PairPaths(g, Combinations2(seeded.nodes), k_yens, <<>>)
             ELSE [raised |-> FALSE, paths |-> <<>>])

\* Graph.__call__(tags, retrieved_tags, k_yens, k_walk).  Besides the
\* returned (nodes, links) the record keeps the locals the properties speak of:
\* seeds (the known seed indices), lonely, searched (the paths of the
\* pairwise searches), walked (whether the fallback ran) and paths (the
\* collected paths).
assemble(g, i2n, n2i, dc, tags, retrieved_tags, k_yens, k_walk) ==
    Search(g, i2n, dc, k_yens, k_walk, Seeds(g, n2i, dc, tags, retrieved_tags))

(***************************************************************************)
(* The state machine: a Graph built from a triple sequence, then queried.  *)
(***************************************************************************)
TripleSet == [head : Tags, tail : Tags]

\* Tag names are opaque dictionary keys to the code, so the model names the
\* tags in the order in which __init__ meets them.
FirstAppearanceOrder(ts) == NodesOf(ts) = SubSeq(TagOrder, 1, Len(NodesOf(ts)))

TripleInputs == {ts \in SeqsUpTo(TripleSet, MaxTriples) : FirstAppearanceOrder(ts)}

NoArgs == <<>>
NoRet == <<>>
\* no request of a client is in progress
NoRequests == <<>>
\* self._document_counts = {}
NoCounts == [t \in {} |-> 0]

\* Graph(triples): the state after __init__
Init ==
    /\ triples \in TripleInputs
    /\ idx_to_node = IdxToNode(triples)
    /\ node_to_idx = NodeToIdx(triples)
    /\ graph = BuildGraph(triples, NodeToIdx(triples), EmptyGraph)
    /\ document_counts = NoCounts
    /\ documents = <<>>
    /\ excluded_tags = {}
    /\ latest_documents = <<>>
    /\ pipeline = None
    /\ requests = NoRequests
    /\ op = "idle"
    /\ args = NoArgs
    /\ ret = NoRet

\* what the constructed objects hold: the Graph (tag index, graph store,
\* document counts), the Pipeline (documents of the retriever, exclusion
\* set, latest-documents cache) and knowledge.pipeline, the reference of the
\* server to the Pipeline
snapshot == <<triples, idx_to_node, node_to_idx, graph, document_counts,
              documents, excluded_tags, latest_documents, pipeline>>

\* graph.yens(start, end, k) on indices of the graph (an index that is not
\* in the graph makes networkx raise NodeNotFound; __call__ never passes one)
CallYens ==
    /\ op = "idle"
    /\ \E start \in DOMAIN graph, end \in DOMAIN graph, k \in 0..MaxK :
        /\ op' = "yens"
        /\ args' = [start |-> start, end |-> end, k |-> k]
        /\ ret' = yens(graph, start, end, k)
    /\ UNCHANGED <<snapshot, requests>>

\* graph.walk(start, k) on an index of the graph
CallWalk ==
    /\ op = "idle"
    /\ \E start \in DOMAIN graph, k \in 0..MaxK :
        /\ op' = "walk"
        /\ args' = [start |-> start, k |-> k]
        /\ ret' = walk(graph, start, k)
    /\ UNCHANGED <<snapshot, requests>>

\* the call returns to its caller; its arguments and result are dropped
Return ==
    /\ op # "idle"
    /\ op' = "idle"
    /\ args' = NoArgs
    /\ ret' = NoRet
    /\ UNCHANGED <<snapshot, requests>>

NextPathFinder == CallYens \/ CallWalk \/ Return

SpecPathFinder == Init /\ [][NextPathFinder]_vars

\* the tag names a request may carry: the tags of the graph and an unknown one
SeedNames == Range(NodesOf(triples)) \cup {UnknownTag}

\* graph(tags, retrieved_tags, k_yens, k_walk)
CallAssemble ==
    /\ op = "idle"
    /\ \E tags \in SeqsUpTo(SeedNames, MaxTags),
          retrieved_tags \in SeqsUpTo(SeedNames, MaxRetrieved),
          k_yens \in 0..MaxK, k_walk \in 0..MaxK :
        /\ op' = "call"
        /\ args' = [tags |-> tags, retrieved_tags |-> retrieved_tags,
                    k_yens |-> k_yens, k_walk |-> k_walk]
        /\ ret' = assemble(graph, idx_to_node, node_to_idx, document_counts,
                           tags, retrieved_tags, k_yens, k_walk)
    /\ UNCHANGED <<snapshot, requests>>

NextAssembler == CallAssemble \/ Return

SpecAssembler == Init /\ [][NextAssembler]_vars

(***************************************************************************)
(* Helpers of the properties.                                              *)
(***************************************************************************)
\* the indices reachable from the set S along edges of the graph
RECURSIVE ReachFrom(_, _)
ReachFrom(g, S) ==
    LET S1 == S \cup {w \in DOMAIN g : \E v \in S : InSeq(w, g[v])}
    IN  IF S1 = S THEN S ELSE ReachFrom(g, S1)

SameComponent(g, a, b) == b \in ReachFrom(g, {a})

Min2(x, y) == IF x <= y THEN x ELSE y

\* the tags given as seeds of the running __call__
SeedTags == Range(args.tags) \cup Range(args.retrieved_tags)

\* the colour of the last assignment to a seed tag
LastColor(tag) == IF InSeq(tag, args.retrieved_tags) THEN SeedQuery ELSE SeedDocument

NodesWithId(tag) == {i \in 1..Len(ret.nodes) : ret.nodes[i].id = tag}

LinksAt(tag) ==
    {i \in 1..Len(ret.links) : ret.links[i].source = tag \/ ret.links[i].target = tag}

(***************************************************************************)
(* Properties of the path finder (SpecPathFinder).                         *)
(***************************************************************************)

\* C1: for every start index of the graph and every k >= 0, walk(start, k)
\* returns a list whose first element is start and whose length is at most
\* k + 2.
C1_WalkAtMostKPlus2 ==
    op = "walk" => /\ ret[1] = args.start
                   /\ Len(ret) <= args.k + 2

\* C2: yens(start, end, k) examines exactly k + 1 candidates of the
\* enumeration (fewer only when the enumeration is exhausted earlier), keeps
\* every examined candidate of at most 3 nodes and so never returns more
\* than k + 1 paths.
C2_YensExaminesKPlus1 ==
    (op = "yens" /\ ~ret.raised) =>
        LET all == AllSimplePaths(graph, args.start, args.end, SSPStart, <<>>)
        IN  /\ ret.examined = Min2(args.k + 1, Len(all))
            /\ ret.paths = SelectSeq(SubSeq(all, 1, ret.examined),
                                     LAMBDA p : Len(p) <= 3)
            /\ Len(ret.paths) <= args.k + 1

\* C3: every path returned by yens(start, end, k) has at most 3 nodes.
C3_YensPathsAtMost3 ==
    op = "yens" => \A i \in 1..Len(ret.paths) : Len(ret.paths[i]) <= 3

\* C3 witness: a search that examined a candidate of more than 3 nodes and
\* left it out of its result.
C3_Witness ==
    /\ op = "yens"
    /\ ~ret.raised
    /\ ret.examined > Len(ret.paths)

\* C4 as claimed: yens(a, a, k) returns the empty list.
C4_SelfSearchEmpty ==
    (op = "yens" /\ args.start = args.end) => ret.paths = <<>>

\* C4 amended: yens(a, a, k) raises nothing and returns the list holding
\* exactly the single-node path [a].
C4_SelfSearchReturnsTrivialPath ==
    (op = "yens" /\ args.start = args.end) =>
        /\ ~ret.raised
        /\ ret.paths = <<(<<args.start>>)>>
        /\ ret.examined = 1

\* C4 witness: a search from an index to itself, on an index that has a
\* neighbour other than itself.
C4_Witness ==
    /\ op = "yens"
    /\ args.start = args.end
    /\ \E w \in Range(graph[args.start]) : w # args.start
    /\ args.k >= 1

\* C5 as claimed: with start and end in different connected components,
\* yens returns an empty list and raises no error.
C5_NoPathReturnsEmpty ==
    (op = "yens" /\ ~SameComponent(graph, args.start, args.end)) =>
        /\ ~ret.raised
        /\ ret.paths = <<>>

\* C5 amended: yens raises (NetworkXNoPath) exactly when start and end lie in
\* different connected components, having collected no path; the loop of
\* __call__ catches the exception and adds no path for that pair.
C5_NoPathRaisesAndIsCaught ==
    op = "yens" =>
        /\ ret.raised <=> ~SameComponent(graph, args.start, args.end)
        /\ ret.raised =>
            /\ ret.paths = <<>>
            /\ PairPaths(graph, <<(<<args.start, args.end>>)>>, args.k, <<>>)
                 = [raised |-> FALSE, paths |-> <<>>]

\* C5 witness: a search between two indices of different components.
C5_Witness ==
    /\ op = "yens"
    /\ ~SameComponent(graph, args.start, args.end)
    /\ ret.raised

(***************************************************************************)
(* Properties of the subgraph assembler (SpecAssembler).                   *)
(***************************************************************************)

\* C6: in the output of __call__, every known seed tag that has at least one
\* neighbour has at least one link incident to it.
C6_EverySeedHasALink ==
    op = "call" =>
        \A t \in SeedTags :
            (/\ t \in DOMAIN node_to_idx
             /\ \E w \in Range(graph[node_to_idx[t]]) : w # node_to_idx[t])
            => LinksAt(t) # {}

\* C7: no link returned by __call__ has its source equal to its target.
C7_NoSelfLoopLink ==
    op = "call" =>
        \A i \in 1..Len(ret.links) : ret.links[i].source # ret.links[i].target

\* the largest value among the links of the response
RECURSIVE MaxValue(_)
MaxValue(links) ==
    IF links = <<>> THEN 0
    ELSE LET m == MaxValue(Tail(links))
         IN  IF Head(links).value >= m THEN Head(links).value ELSE m

\* C8: with at least one link, every weight equals value / (largest value of
\* the response), lies in (0, 1], and some weight is exactly 1; there is no
\* link exactly when no collected path has two consecutive elements.
C8_WeightsNormalised ==
    op = "call" =>
        LET M == MaxValue(ret.links)
        IN  /\ \A i \in 1..Len(ret.links) :
                LET l == ret.links[i]
                IN  /\ l.weight.den > 0
                    /\ l.weight.num * M = l.value * l.weight.den
                    /\ 0 < l.weight.num
                    /\ l.weight.num <= l.weight.den
            /\ ret.links # <<>> =>
                \E i \in 1..Len(ret.links) :
                    ret.links[i].weight.num = ret.links[i].weight.den
            /\ ret.links = <<>> <=>
                \A i \in 1..Len(ret.paths) : Len(ret.paths[i]) <= 1

\* C8 witness: a response in which some link weighs less than 1.
C8_Witness ==
    /\ op = "call"
    /\ \E i \in 1..Len(ret.links) :
        ret.links[i].weight.num < ret.links[i].weight.den

\* C9: a tag supplied as a seed more than once gets exactly one node, with
\* the colour of its last assignment (SeedQuery when it is in both lists).
C9_DuplicateSeedLastColor ==
    op = "call" =>
        \A t \in SeedTags :
            /\ Cardinality(NodesWithId(t)) = 1
            /\ \A i \in NodesWithId(t) : ret.nodes[i].color = LastColor(t)

\* C9 witness: a tag given twice in the document list and again in the
\* query list, coloured SeedQuery.
C9_Witness ==
    /\ op = "call"
    /\ \E t \in Range(args.retrieved_tags) :
        /\ \E i, j \in 1..Len(args.tags) : i < j /\ args.tags[i] = t /\ args.tags[j] = t
        /\ \E n \in NodesWithId(t) : ret.nodes[n].color = SeedQuery

\* C10: __call__ does not raise; every seed tag absent from the tag index is
\* emitted as one node of degree 0 with its seed colour and is the endpoint
\* of no link.
C10_UnknownSeedsDegradeGracefully ==
    op = "call" =>
        /\ ~ret.raised
        /\ \A t \in SeedTags \ DOMAIN node_to_idx :
            /\ Cardinality(NodesWithId(t)) = 1
            /\ \A i \in NodesWithId(t) :
                /\ ret.nodes[i].degree = 0
                /\ ret.nodes[i].color = LastColor(t)
            /\ LinksAt(t) = {}

\* C10 witness: an unknown seed next to two known seeds of different
\* components (the pairwise search raised and was caught), with links.
C10_Witness ==
    /\ op = "call"
    /\ \E t \in SeedTags : t \notin DOMAIN node_to_idx
    /\ \E i, j \in 1..Len(ret.seeds) :
        ~SameComponent(graph, ret.seeds[i], ret.seeds[j])
    /\ ret.links # <<>>

(***************************************************************************)
(* Repeated construction and repeated calls of a Graph.                    *)
(***************************************************************************)
\* faulty variant: the nodes are collected in a set of strings
\* (nodes = {head ...} | {tail ...}), which a Python process iterates in an
\* order of its own: the second construction numbers the tags in any order
RebuildFromSet ==
    /\ op = "idle"
    /\ op' = "rebuild"
    /\ args' = [triples |-> triples]
    /\ ret' = [idx_to_node |-> idx_to_node, node_to_idx |-> node_to_idx, graph |-> graph]
    /\ \E order \in {f \in [DOMAIN idx_to_node -> Range(NodesOf(triples))] :
                         \A i, j \in DOMAIN f : i # j => f[i] # f[j]} :
        /\ idx_to_node' = order
        /\ node_to_idx' = InverseOf(order)
        /\ graph' = BuildGraph(triples, InverseOf(order), EmptyGraph)
    /\ document_counts' = NoCounts
    /\ UNCHANGED <<triples, documents, excluded_tags, latest_documents, pipeline,
                   requests>>

\* Graph(triples) once more, from the triple sequence of the first
\* construction; ret keeps the index and the graph of the build before
Rebuild ==
    /\ op = "idle"
    /\ op' = "rebuild"
    /\ args' = [triples |-> triples]
    /\ ret' = [idx_to_node |-> idx_to_node, node_to_idx |-> node_to_idx, graph |-> graph]
    /\ idx_to_node' = IdxToNode(triples)
    /\ node_to_idx' = NodeToIdx(triples)
    /\ graph' = BuildGraph(triples, NodeToIdx(triples), EmptyGraph)
    /\ document_counts' = NoCounts
    /\ UNCHANGED <<triples, documents, excluded_tags, latest_documents, pipeline,
                   requests>>

\* graph(tags, retrieved_tags, k_yens, k_walk) once more, with the arguments
\* of the call before; ret keeps both results
CallAssembleAgain ==
    /\ op = "call"
    /\ op' = "call_again"
    /\ args' = args
    /\ ret' = [first |-> ret,
               second |-> assemble(graph, idx_to_node, node_to_idx, document_counts,
                                   args.tags, args.retrieved_tags,
                                   args.k_yens, args.k_walk)]
    /\ UNCHANGED <<snapshot, requests>>

NextRepeat == CallAssemble \/ CallAssembleAgain \/ Rebuild \/ Return

SpecRepeat == Init /\ [][NextRepeat]_vars

(***************************************************************************)
(* Graph.expand                                                            *)
(***************************************************************************)
\* "weight": 0.5
ExpandWeight == [num |-> 1, den |-> 2]

\* faulty variant: the loop stops one neighbour later
ExpandBreakAfter(i, k) == i > k

\* if i >= k: break
ExpandBreak(i, k) == i >= k

\* faulty variant: the link is added without the node of the neighbour
ExpandNeighborLinkOnly(g, i2n, dc, st, node_id, neighbor_idx) ==
    [output_nodes |-> st.output_nodes,
     links |-> Append(st.links,
                      [source |-> node_id, target |-> i2n[neighbor_idx],
                       value |-> 1, weight |-> ExpandWeight])]

\* the body of the loop of lines 325-332, for the neighbour neighbor_idx
ExpandNeighbor(g, i2n, dc, st, node_id, neighbor_idx) ==
    [output_nodes |->
         SetNode(st.output_nodes,
                 [id |-> i2n[neighbor_idx], color |-> PathIntermediate,
                  degree |-> degree(g, neighbor_idx),
                  documentCount |-> DocumentCount(dc, i2n[neighbor_idx])]),
     links |-> Append(st.links,
                      [source |-> node_id, target |-> i2n[neighbor_idx],
                       value |-> 1, weight |-> ExpandWeight])]

\* for i, neighbor_idx in enumerate(nx.all_neighbors(self.graph, idx))
\* (i is 0-based; nb[i + 1] is the i-th neighbour)
RECURSIVE ExpandLoop(_, _, _, _, _, _, _, _)
ExpandLoop(g, i2n, dc, st, node_id, nb, i, k) ==
    IF i >= Len(nb) THEN st
    ELSE IF ExpandBreak(i, k) THEN st
    ELSE ExpandLoop(g, i2n, dc, ExpandNeighbor(g, i2n, dc, st, node_id, nb[i + 1]),
                    node_id, nb, i + 1, k)

\* return list(output_nodes.values()), links
ExpandReturn(st) == [nodes |-> st.output_nodes, links |-> st.links]

\* lines 311-334, idx being the index of node_id
ExpandAt(g, i2n, dc, node_id, k, idx) ==
    IF idx = None THEN [nodes |-> <<>>, links |-> <<>>]
    ELSE ExpandReturn(
             ExpandLoop(g, i2n, dc,
                        [output_nodes |->
                             <<[id |-> node_id, color |-> SeedDocument,
                                degree |-> degree(g, idx),
                                documentCount |-> DocumentCount(dc, node_id)]>>,
                         links |-> <<>>],
                        node_id, all_neighbors(g, idx), 0, k))

\* Graph.expand(node_id, k)
expand(g, i2n, n2i, dc, node_id, k) ==
    ExpandAt(g, i2n, dc, node_id, k, DictGet(n2i, node_id, None))

\* largest k given to expand
MaxExpand == 2

\* graph.expand(node_id, k)
CallExpand ==
    /\ op = "idle"
    /\ \E node_id \in SeedNames, k \in 0..MaxExpand :
        /\ op' = "expand"
        /\ args' = [node_id |-> node_id, k |-> k]
        /\ ret' = expand(graph, idx_to_node, node_to_idx, document_counts, node_id, k)
    /\ UNCHANGED <<snapshot, requests>>

NextExpander == CallExpand \/ Return

SpecExpander == Init /\ [][NextExpander]_vars

\* the two calls that return a payload of nodes and links
NextPayload == CallAssemble \/ CallExpand \/ Return

SpecPayload == Init /\ [][NextPayload]_vars

(***************************************************************************)
(* tags.get_tags_triples                                                   *)
(***************************************************************************)
\* all_tags = document["tags"] + document["extra-tags"]
AllTags(document) == document.tags \o document.extra_tags

\* faulty variant: only the head is tested against the excluded tags
ExcludedHeadOnly(head, tail, excluded) == head \in excluded

\* if head in excluded_tags or tail in excluded_tags: continue
Excluded(head, tail, excluded) == head \in excluded \/ tail \in excluded

\* if head in seen[tail] or tail in seen[head]: continue
\* (seen is the set of the pairs <<x, y>> with seen[x][y] set)
SeenEdge(seen, head, tail) == <<tail, head>> \in seen \/ <<head, tail>> \in seen

\* triples.append({"head": head, "tail": tail}); seen[head][tail] = True;
\* seen[tail][head] = True
AppendTriple(st, head, tail) ==
    [triples |-> Append(st.triples, [head |-> head, tail |-> tail]),
     seen |-> st.seen \cup {<<head, tail>>, <<tail, head>>}]

\* the body of  for head, tail in itertools.combinations(all_tags, 2)
TriplePair(st, head, tail, excluded) ==
    IF Excluded(head, tail, excluded) THEN st
    ELSE IF SeenEdge(st.seen, head, tail) THEN st
    ELSE AppendTriple(st, head, tail)

RECURSIVE TriplePairs(_, _, _)
TriplePairs(st, pairs, excluded) ==
    IF pairs = <<>> THEN st
    ELSE TriplePairs(TriplePair(st, Head(pairs)[1], Head(pairs)[2], excluded),
                     Tail(pairs), excluded)

\* for _, document in data.items(): ...
RECURSIVE TripleDocuments(_, _, _)
TripleDocuments(st, data, excluded) ==
    IF data = <<>> THEN st
    ELSE TripleDocuments(TriplePairs(st, Combinations2(AllTags(Head(data))), excluded),
                         Tail(data), excluded)

get_tags_triples(data, excluded) ==
    TripleDocuments([triples |-> <<>>, seen |-> {}], data, excluded).triples

(***************************************************************************)
(* Pipeline.__init__                                                       *)
(***************************************************************************)
\* document.get("tags", []) + document.get("extra-tags", [])
CountedTags(document) ==
    DictGet(document, "tags", <<>>) \o DictGet(document, "extra_tags", <<>>)

\* document_counts[tag] = document_counts.get(tag, 0) + 1
CountTag(counts, tag) ==
    IF tag \in DOMAIN counts THEN [counts EXCEPT ![tag] = @ + 1]
    ELSE counts @@ (tag :> 1)

\* for tag in document.get("tags", []) + document.get("extra-tags", [])
RECURSIVE CountTags(_, _)
CountTags(counts, tags) ==
    IF tags = <<>> THEN counts
    ELSE CountTags(CountTag(counts, Head(tags)), Tail(tags))

\* for _url, document in documents.items(): ...
RECURSIVE DocumentCounts(_, _)
DocumentCounts(counts, docs) ==
    IF docs = <<>> THEN counts
    ELSE DocumentCounts(CountTags(counts, CountedTags(Head(docs))), Tail(docs))

\* datetime.datetime.strptime(doc["date"], "%Y-%m-%d"): a date <<year, month,
\* day>> is turned into a value ordered as the calendar orders the dates
DateKey(date) == (date[1] * 12 + (date[2] - 1)) * 31 + (date[3] - 1)

\* faulty variant: the documents are sorted oldest first
InsertByDateAscending(sorted, doc) ==
    LET before == SelectSeq(sorted, LAMBDA d : DateKey(d.date) <= DateKey(doc.date))
        after == SelectSeq(sorted, LAMBDA d : DateKey(d.date) > DateKey(doc.date))
    IN  before \o <<doc>> \o after

\* sorted(..., key=..., reverse=True) is stable: a document goes behind the
\* documents that are not older and that came before it
InsertByDate(sorted, doc) ==
    LET before == SelectSeq(sorted, LAMBDA d : DateKey(d.date) >= DateKey(doc.date))
        after == SelectSeq(sorted, LAMBDA d : DateKey(d.date) < DateKey(doc.date))
    IN  before \o <<doc>> \o after

RECURSIVE SortedByDate(_, _)
SortedByDate(sorted, docs) ==
    IF docs = <<>> THEN sorted
    ELSE SortedByDate(InsertByDate(sorted, Head(docs)), Tail(docs))

\* Python's s[:n]: the first n elements (all of them when n exceeds the
\* length); a negative n drops the last -n elements
Prefix(s, n) ==
    IF n >= 0 THEN SubSeq(s, 1, IF n <= Len(s) THEN n ELSE Len(s))
    ELSE SubSeq(s, 1, IF Len(s) + n >= 0 THEN Len(s) + n ELSE 0)

\* sorted([...], key=..., reverse=True)[:k_latest_documents]
LatestDocuments(docs, k_latest_documents) ==
    Prefix(SortedByDate(<<>>, docs), k_latest_documents)

(***************************************************************************)
(* Retriever: the two BM25 indices are built by the cherche library; a     *)
(* query is identified with the rankings the library returns for it.       *)
(***************************************************************************)
\* tags_dict of Retriever.__init__: the distinct tags of the documents, in
\* the order of their first appearance
RECURSIVE TagIndex(_, _)
TagIndex(docs, tags_dict) ==
    IF docs = <<>> THEN tags_dict
    ELSE TagIndex(Tail(docs), Dedup(Head(docs).tags \o Head(docs).extra_tags, tags_dict))

\* the sequences of at most n distinct elements of S
DistinctSeqs(S, n) ==
    {s \in SeqsUpTo(S, n) : \A i, j \in 1..Len(s) : i # j => s[i] # s[j]}

\* self.retriever(q): documents of the index, ranked
retriever_documents(docs, q) == [i \in 1..Len(q.documents) |-> docs[q.documents[i]]]

\* [tag["tag"] for tag in self.retriever_tags(q)]: tags of the index, ranked
retriever_tags(q) == q.tags

(***************************************************************************)
(* Pipeline.get_latest_documents, Pipeline.search, Pipeline.__call__,      *)
(* Pipeline.plot                                                           *)
(***************************************************************************)
\* return self.latest_documents[:count]
get_latest_documents(latest, count) == Prefix(latest, count)

\* if tags: return self.retriever.documents_tags(q)
\* return self.retriever.documents(q)      (both are self.retriever(q))
search(docs, q) == retriever_documents(docs, q)

\* document["tags"] + document["extra-tags"]
RetrievedTags(document) == document.tags \o document.extra_tags

\* faulty variant: the excluded tags are collected as well
CollectTagAlways(tags, tag, excluded) ==
    IF InSeq(tag, tags) THEN tags ELSE Append(tags, tag)

\* if tag not in self.excluded_tags: tags[tag] = True
CollectTag(tags, tag, excluded) ==
    IF tag \in excluded THEN tags
    ELSE IF InSeq(tag, tags) THEN tags ELSE Append(tags, tag)

\* for tag in document["tags"] + document["extra-tags"]
RECURSIVE CollectTags(_, _, _)
CollectTags(tags, doc_tags, excluded) ==
    IF doc_tags = <<>> THEN tags
    ELSE CollectTags(CollectTag(tags, Head(doc_tags), excluded), Tail(doc_tags), excluded)

\* for document in documents
RECURSIVE CollectDocuments(_, _, _)
CollectDocuments(tags, retrieved, excluded) ==
    IF retrieved = <<>> THEN tags
    ELSE CollectDocuments(CollectTags(tags, RetrievedTags(Head(retrieved)), excluded),
                          Tail(retrieved), excluded)

\* list(tags)[:k_tags]
SeedCap(tags, k_tags) == Prefix(tags, k_tags)

\* lines 172-179: the graph call and the returned tuple; tags and
\* retrieved_tags are kept beside the returned (documents, nodes, links)
PipelineResponse(g, i2n, n2i, dc, retrieved, tags, retrieved_tags, k_yens, k_walk) ==
    [documents |-> retrieved, tags |-> tags, retrieved_tags |-> retrieved_tags,
     graph |-> assemble(g, i2n, n2i, dc, tags, retrieved_tags, k_yens, k_walk)]

\* lines 165-170, retrieved being the documents of the search
PipelineSeeds(g, i2n, n2i, dc, excluded, retrieved, retrieved_tags, k_tags, k_yens, k_walk) ==
    PipelineResponse(g, i2n, n2i, dc, retrieved,
                     SeedCap(CollectDocuments(<<>>, retrieved, excluded), k_tags),
                     retrieved_tags, k_yens, k_walk)

\* Pipeline.__call__(q, k_tags, k_yens, k_walk)
pipeline_call(g, i2n, n2i, dc, docs, excluded, q, k_tags, k_yens, k_walk) ==
    PipelineSeeds(g, i2n, n2i, dc, excluded, retriever_documents(docs, q),
                  retriever_tags(q), k_tags, k_yens, k_walk)

\* _, nodes, links = self(q=q, ...); return nodes, links
PlotOf(response) == [nodes |-> response.graph.nodes, links |-> response.graph.links]

plot(g, i2n, n2i, dc, docs, excluded, q, k_tags, k_yens, k_walk) ==
    PlotOf(pipeline_call(g, i2n, n2i, dc, docs, excluded, q, k_tags, k_yens, k_walk))

(***************************************************************************)
(* The state machine of a Pipeline: built as run.py builds it (the triples *)
(* are get_tags_triples of the documents), then queried.                   *)
(***************************************************************************)
\* most documents of a document set
MaxDocs == 2
\* longest tags list of a document
MaxDocTags == 2
\* longest extra-tags list of a document
MaxExtraTags == 1
\* largest k_latest_documents given to the Pipeline
MaxLatest == 2
\* largest k_yens / k_walk given to the Pipeline
MaxPipelineK == 0
\* largest count given to get_latest_documents
MaxLatestCount == 3

\* dates <<year, month, day>> of the documents
Dates == {<<2023, 12, 31>>, <<2024, 1, 2>>}

DocumentSet ==
    [tags : SeqsUpTo(Tags, MaxDocTags), extra_tags : SeqsUpTo(Tags, MaxExtraTags),
     date : Dates]

\* {"url": url, **document}: the items of the documents dict, in its order
\* (the url of a document is its position)
WithUrl(docs) ==
    [i \in 1..Len(docs) |->
        [url |-> i, tags |-> docs[i].tags, extra_tags |-> docs[i].extra_tags,
         date |-> docs[i].date]]

\* the tags are named in the order in which the documents bring them up
DocumentOrder(docs) ==
    TagIndex(docs, <<>>) = SubSeq(TagOrder, 1, Len(TagIndex(docs, <<>>)))

DocumentInputs ==
    {WithUrl(docs) : docs \in {d \in SeqsUpTo(DocumentSet, MaxDocs) : DocumentOrder(d)}}

\* the exclusion sets: empty, or one tag of the documents
ExcludedInputs(docs) == {{}} \cup {{t} : t \in Range(TagIndex(docs, <<>>))}

\* a client that has no request in progress
IdleRequest == [pc |-> "idle", op |-> "none", args |-> NoArgs, local |-> NoArgs, ret |-> NoRet]

\* run.py: triples = get_tags_triples(data, excluded_tags);
\* Pipeline(documents=data, triples=triples, excluded_tags=excluded_tags,
\*          k_latest_documents=k_latest_documents)
\* for the document sets of inputs and the k_latest_documents of sizes
PipelineBuilt(inputs, sizes) ==
    /\ documents \in inputs
    /\ excluded_tags \in ExcludedInputs(documents)
    /\ triples = get_tags_triples(documents, excluded_tags)
    /\ idx_to_node = IdxToNode(triples)
    /\ node_to_idx = NodeToIdx(triples)
    /\ graph = BuildGraph(triples, NodeToIdx(triples), EmptyGraph)
    /\ document_counts = DocumentCounts(NoCounts, documents)
    /\ \E k_latest_documents \in sizes :
        latest_documents = LatestDocuments(documents, k_latest_documents)

\* the state after the construction, the Pipeline serving the given clients
PipelineInit(inputs, sizes, clients) ==
    /\ PipelineBuilt(inputs, sizes)
    /\ pipeline = PipelineObject
    /\ requests = [c \in clients |-> IdleRequest]
    /\ op = "idle"
    /\ args = NoArgs
    /\ ret = NoRet

\* the state after the construction of a Pipeline
InitPipeline == PipelineInit(DocumentInputs, 1..MaxLatest, {})

\* the document sets whose documents all carry the latest date
SameDayInputs ==
    {docs \in DocumentInputs : \A i \in 1..Len(docs) : docs[i].date = <<2024, 1, 2>>}

\* the state after the construction of a Pipeline whose documents are of
\* one day and all fit in the latest-documents cache
InitSameDay == PipelineInit(SameDayInputs, {MaxLatest}, {})

\* the queries: the rankings of documents and of tags the retriever may return
Queries ==
    [documents : DistinctSeqs(1..Len(documents), MaxDocs),
     tags : DistinctSeqs(Range(TagIndex(documents, <<>>)), MaxRetrieved)]

\* pipeline.get_latest_documents(count)
CallLatest ==
    /\ op = "idle"
    /\ \E count \in (-1)..MaxLatestCount :
        /\ op' = "latest"
        /\ args' = [count |-> count]
        /\ ret' = get_latest_documents(latest_documents, count)
    /\ UNCHANGED <<snapshot, requests>>

\* pipeline(q, k_tags, k_yens, k_walk)
CallPipeline ==
    /\ op = "idle"
    /\ \E q \in Queries, k_tags \in 0..MaxTags,
          k_yens \in 0..MaxPipelineK, k_walk \in 0..MaxPipelineK :
        /\ op' = "pipeline"
        /\ args' = [q |-> q, k_tags |-> k_tags, k_yens |-> k_yens, k_walk |-> k_walk]
        /\ ret' = pipeline_call(graph, idx_to_node, node_to_idx, document_counts,
                                documents, excluded_tags, q, k_tags, k_yens, k_walk)
    /\ UNCHANGED <<snapshot, requests>>

\* the latest-documents view of a Pipeline
NextLatest == CallLatest \/ Return

SpecLatest == InitPipeline /\ [][NextLatest]_vars

\* the graph view of a Pipeline
NextQuery == CallPipeline \/ Return

SpecQuery == InitSameDay /\ [][NextQuery]_vars

(***************************************************************************)
(* The construction of a Pipeline, over documents that may come without    *)
(* the 'extra-tags' field.                                                 *)
(***************************************************************************)
\* document.pop("extra-tags") and document["extra-tags"] raise KeyError on a
\* document that has no such field
HasExtraTags(document) == "extra_tags" \in DOMAIN document

\* Retriever.__init__: the flattening of the tags (lines 61-70) pops
\* "extra-tags" of every document
RetrieverRaises(docs) == \E i \in 1..Len(docs) : ~HasExtraTags(docs[i])

\* a document given without its 'extra-tags' field
WithoutExtraTags(document) ==
    [url |-> document.url, tags |-> document.tags, date |-> document.date]

\* the documents read with an absent 'extra-tags' standing for no extra tag
WithExtraTags(docs) ==
    [i \in 1..Len(docs) |->
        [url |-> docs[i].url, tags |-> docs[i].tags,
         extra_tags |-> DictGet(docs[i], "extra_tags", <<>>), date |-> docs[i].date]]

\* the documents docs, any of those that have no extra tag being given with
\* or without the field
FieldChoices(docs) ==
    {[i \in 1..Len(docs) |-> IF i \in S THEN WithoutExtraTags(docs[i]) ELSE docs[i]] :
        S \in SUBSET {i \in 1..Len(docs) : docs[i].extra_tags = <<>>}}

\* the document sets given to the constructor
ConstructInputs == UNION {FieldChoices(docs) : docs \in SameDayInputs}

\* the arguments of Pipeline(documents, triples, excluded_tags,
\* k_latest_documents) before the call: the triples are those of the tags of
\* the documents, and nothing is built yet
InitConstruct ==
    /\ documents \in ConstructInputs
    /\ excluded_tags \in ExcludedInputs(WithExtraTags(documents))
    /\ triples = get_tags_triples(WithExtraTags(documents), excluded_tags)
    /\ idx_to_node = <<>>
    /\ node_to_idx = <<>>
    /\ graph = EmptyGraph
    /\ document_counts = NoCounts
    /\ latest_documents = <<>>
    /\ pipeline = None
    /\ requests = NoRequests
    /\ op = "idle"
    /\ args = NoArgs
    /\ ret = NoRet

\* Pipeline.__init__, line 74: Retriever(documents=documents) raises KeyError
\* and nothing is built
ConstructRaises ==
    /\ RetrieverRaises(documents)
    /\ ret' = [raised |-> TRUE, error |-> "KeyError"]
    /\ UNCHANGED snapshot

\* Pipeline.__init__, lines 75-90: the graph, the document counts and the
\* latest-documents cache are built
ConstructBuilds ==
    /\ ~RetrieverRaises(documents)
    /\ idx_to_node' = IdxToNode(triples)
    /\ node_to_idx' = NodeToIdx(triples)
    /\ graph' = BuildGraph(triples, NodeToIdx(triples), EmptyGraph)
    /\ document_counts' = DocumentCounts(NoCounts, documents)
    /\ latest_documents' = LatestDocuments(documents, MaxLatest)
    /\ pipeline' = PipelineObject
    /\ ret' = [raised |-> FALSE, error |-> "none"]
    /\ UNCHANGED <<triples, documents, excluded_tags>>

\* Pipeline(documents, triples, excluded_tags, k_latest_documents)
Construct ==
    /\ op = "idle"
    /\ pipeline = None
    /\ op' = "construct"
    /\ args' = [k_latest_documents |-> MaxLatest]
    /\ (ConstructRaises \/ ConstructBuilds)
    /\ UNCHANGED requests

\* pipeline(q, ...) on the constructed Pipeline
QueryConstructed == pipeline # None /\ CallPipeline

NextConstruct == Construct \/ QueryConstructed \/ Return

SpecConstruct == InitConstruct /\ [][NextConstruct]_vars

(***************************************************************************)
(* The server of api.py: the Pipeline loaded at startup is shared by the   *)
(* request handlers, which the hosting runtime runs concurrently.  A       *)
(* handler that reads the shared objects in two places is two steps.       *)
(***************************************************************************)
\* number of clients with a request in progress at the same time
NumClients == 2

Clients == 1..NumClients

\* the document sets the server is loaded with: MaxDocs documents of one tag
\* and one extra-tag each, the older document first
ServedInputs ==
    {docs \in DocumentInputs :
        /\ Len(docs) = MaxDocs
        /\ \A i \in 1..Len(docs) : Len(docs[i].tags) = 1 /\ Len(docs[i].extra_tags) = 1
        /\ \A i \in 1..(Len(docs) - 1) : DateKey(docs[i].date) < DateKey(docs[i + 1].date)}

\* knowledge.start(): the state after the pipeline is loaded
InitServer == PipelineInit(ServedInputs, {MaxLatest}, Clients)

\* the ranking of all the documents in the order of the index, or in the
\* opposite order
Ranking(n, reversed) == [i \in 1..n |-> IF reversed THEN n + 1 - i ELSE i]

\* the queries the clients send: one ranks the documents in the order of the
\* index and finds the first tags of the tag index, the other ranks them in
\* the opposite order and finds no tag
ServedQueries ==
    {[documents |-> Ranking(Len(documents), FALSE),
      tags |-> Prefix(TagIndex(documents, <<>>), MaxRetrieved)],
     [documents |-> Ranking(Len(documents), TRUE), tags |-> <<>>]}

\* the tag names the clients expand: the first tag of the tag index and an
\* unknown one
ServedTags == Range(Prefix(TagIndex(documents, <<>>), 1)) \cup {UnknownTag}

\* faulty variant: the cache is cut in place (del self.latest_documents[count:])
CacheCutInPlace(latest, count) == Prefix(latest, count)

\* self.latest_documents[:count] builds a new list: the cache is as before
CacheAfterSlice(latest, count) == latest

Done(c, name, arguments, result) ==
    [requests EXCEPT ![c] = [pc |-> "done", op |-> name, args |-> arguments,
                             local |-> NoArgs, ret |-> result]]

Running(c, name, arguments, locals) ==
    [requests EXCEPT ![c] = [pc |-> "running", op |-> name, args |-> arguments,
                             local |-> locals, ret |-> NoRet]]

\* GET /latest/{count}: pipeline.get_latest_documents(count)
ServeLatest(c) ==
    /\ requests[c].pc = "idle"
    /\ \E count \in 1..MaxLatest :
        /\ requests' = Done(c, "latest", [count |-> count],
                            get_latest_documents(latest_documents, count))
        /\ latest_documents' = CacheAfterSlice(latest_documents, count)
    /\ UNCHANGED <<triples, idx_to_node, node_to_idx, graph, document_counts,
                   documents, excluded_tags, pipeline, op, args, ret>>

\* the {tags} part of the path of a search: "null" for no filter
TagFilters == {"null", "x"}

\* lines 183-192 of the handler: if bool(sort), the documents found are
\* sorted by date, newest first (sorted(..., reverse=True) is stable: the
\* documents of one date keep the order of the ranking)
SearchResponse(found, sort) == IF sort THEN SortedByDate(<<>>, found) ELSE found

\* GET /search/{sort}/{tags}/{q}: tags = tags != "null";
\* knowledge.search(q, tags), which is pipeline.search(q, tags) and returns
\* self.retriever(q) for either value of tags; then the sort by date
ServeSearch(c) ==
    /\ requests[c].pc = "idle"
    /\ \E q \in ServedQueries, sort \in BOOLEAN, tags \in TagFilters :
        requests' = Done(c, "search", [q |-> q, sort |-> sort, tags |-> tags # "null"],
                         SearchResponse(search(documents, q), sort))
    /\ UNCHANGED <<snapshot, op, args, ret>>

\* the arguments of pipeline(q, k_tags, k_yens, k_walk) / pipeline.plot(...)
ServedArgs ==
    [q : ServedQueries, k_tags : {MaxTags}, k_yens : {MaxPipelineK}, k_walk : {MaxPipelineK}]

\* lines 162-163 of Pipeline.__call__: the two searches of the retriever
Retrieved(a) ==
    [documents |-> retriever_documents(documents, a.q), retrieved_tags |-> retriever_tags(a.q)]

\* lines 165-179 of Pipeline.__call__, for the request r
Assembled(r) ==
    PipelineSeeds(graph, idx_to_node, node_to_idx, document_counts, excluded_tags,
                  r.local.documents, r.local.retrieved_tags,
                  r.args.k_tags, r.args.k_yens, r.args.k_walk)

\* pipeline(q, ...): the searches
StartPipeline(c) ==
    /\ requests[c].pc = "idle"
    /\ \E a \in ServedArgs : requests' = Running(c, "query_with_graph", a, Retrieved(a))
    /\ UNCHANGED <<snapshot, op, args, ret>>

\* pipeline(q, ...): the tags of the documents, the graph call, the return
FinishPipeline(c) ==
    /\ requests[c].pc = "running"
    /\ requests[c].op = "query_with_graph"
    /\ requests' = Done(c, "query_with_graph", requests[c].args, Assembled(requests[c]))
    /\ UNCHANGED <<snapshot, op, args, ret>>

\* Knowledge.plot(q, k_tags, k_yens=1, k_walk=3): the defaults the handler
\* of /plot leaves in force
PlotKYens == 1
PlotKWalk == 3

\* the arguments of pipeline.plot(q, k_tags, k_yens, k_walk) made by the
\* handler of /plot
PlotArgs ==
    [q : ServedQueries, k_tags : {MaxTags}, k_yens : {PlotKYens}, k_walk : {PlotKWalk}]

\* GET /plot/{k_tags}/{q}: knowledge.plot(q, k_tags), which calls
\* pipeline.plot(q, k_tags, k_yens, k_walk) and so pipeline(q, ...)
StartPlot(c) ==
    /\ requests[c].pc = "idle"
    /\ \E a \in PlotArgs : requests' = Running(c, "plot", a, Retrieved(a))
    /\ UNCHANGED <<snapshot, op, args, ret>>

FinishPlot(c) ==
    /\ requests[c].pc = "running"
    /\ requests[c].op = "plot"
    /\ requests' = Done(c, "plot", requests[c].args, PlotOf(Assembled(requests[c])))
    /\ UNCHANGED <<snapshot, op, args, ret>>

\* expand(self, node_id, k=10): the default the handler of /expand leaves in
\* force
ExpandK == 10

\* GET /expand/{node_id}: graph.expand(node_id), the lookup of the index
StartExpand(c) ==
    /\ requests[c].pc = "idle"
    /\ \E node_id \in ServedTags :
        requests' = Running(c, "expand_node", [node_id |-> node_id, k |-> ExpandK],
                            [idx |-> DictGet(node_to_idx, node_id, None)])
    /\ UNCHANGED <<snapshot, op, args, ret>>

\* graph.expand(node_id, k): the neighbours, the return
FinishExpand(c) ==
    /\ requests[c].pc = "running"
    /\ requests[c].op = "expand_node"
    /\ requests' = Done(c, "expand_node", requests[c].args,
                        ExpandAt(graph, idx_to_node, document_counts,
                                 requests[c].args.node_id, requests[c].args.k,
                                 requests[c].local.idx))
    /\ UNCHANGED <<snapshot, op, args, ret>>

\* the response is sent; the client may send its next request
Respond(c) ==
    /\ requests[c].pc = "done"
    /\ requests' = [requests EXCEPT ![c] = IdleRequest]
    /\ UNCHANGED <<snapshot, op, args, ret>>

NextServer ==
    \E c \in Clients :
        \/ ServeLatest(c)
        \/ ServeSearch(c)
        \/ StartPipeline(c)
        \/ FinishPipeline(c)
        \/ StartPlot(c)
        \/ FinishPlot(c)
        \/ StartExpand(c)
        \/ FinishExpand(c)
        \/ Respond(c)

SpecServer == InitServer /\ [][NextServer]_vars

(***************************************************************************)
(* The startup of the server: api.py registers start() for the "startup"   *)
(* event, and the hosting runtime accepts requests once the handlers of    *)
(* that event have returned (it exits when one of them raises).            *)
(***************************************************************************)
\* knowledge = Knowledge(): database/pipeline.pkl holds the Pipeline that
\* run.py built, knowledge.pipeline is None, the startup event is pending
\* and no request is accepted
InitStartup ==
    /\ PipelineBuilt(ServedInputs, {MaxLatest})
    /\ pipeline = None
    /\ requests = NoRequests
    /\ op = "startup"
    /\ args = NoArgs
    /\ ret = NoRet

\* Knowledge.start, lines 65-66: pickle.load(f) has returned the Pipeline;
\* knowledge.pipeline is not assigned yet
StartLoad ==
    /\ op = "startup"
    /\ op' = "loaded"
    /\ ret' = PipelineObject
    /\ UNCHANGED <<snapshot, requests, args>>

\* Knowledge.start, line 65: open() or pickle.load raises; the startup event
\* fails and the runtime exits
StartFails ==
    /\ op = "startup"
    /\ op' = "failed"
    /\ UNCHANGED <<snapshot, requests, args, ret>>

\* Knowledge.start, lines 66-67: self.pipeline = <the loaded Pipeline>;
\* return self
StartAssign ==
    /\ op = "loaded"
    /\ pipeline' = ret
    /\ op' = "started"
    /\ ret' = NoRet
    /\ UNCHANGED <<triples, idx_to_node, node_to_idx, graph, document_counts,
                   documents, excluded_tags, latest_documents, requests, args>>

\* faulty variant: requests are accepted while the startup event is handled
AcceptingFromTheStart == op \in {"startup", "loaded", "started"}

\* the handlers of the startup event have returned
Accepting == op = "started"

\* the runtime begins to accept the requests of the clients
Accept ==
    /\ Accepting
    /\ requests = NoRequests
    /\ requests' = [c \in Clients |-> IdleRequest]
    /\ UNCHANGED <<snapshot, op, args, ret>>

\* the handlers of the accepted requests
Serve == requests # NoRequests /\ NextServer

NextStartup == StartLoad \/ StartFails \/ StartAssign \/ Accept \/ Serve

SpecStartup == InitStartup /\ [][NextStartup]_vars

\* every action of the model
Next ==
    \/ CallYens \/ CallWalk \/ CallAssemble \/ CallAssembleAgain \/ Rebuild
    \/ CallExpand \/ CallLatest \/ CallPipeline \/ Return \/ NextServer
    \/ Construct \/ StartLoad \/ StartFails \/ StartAssign \/ Accept

Spec ==
    (Init \/ InitPipeline \/ InitServer \/ InitConstruct \/ InitStartup)
        /\ [][Next]_vars

(***************************************************************************)
(* Properties of the constructed Graph (SpecPathFinder).                   *)
(***************************************************************************)
\* the tag names that occur as head or tail of some triple
TripleEndpoints(ts) ==
    {ts[i].head : i \in 1..Len(ts)} \cup {ts[i].tail : i \in 1..Len(ts)}

\* C11: the tag index built by __init__ is a bijection between the tag names
\* that occur as head or tail of a triple and the indices 0..n-1:
\* node_to_idx and idx_to_node are mutual inverses of the same size, and
\* every endpoint of every triple maps to a valid index.
C11_TagIndexBijection ==
    LET names == TripleEndpoints(triples)
    IN  /\ DOMAIN node_to_idx = names
        /\ DOMAIN idx_to_node = 0..(Cardinality(names) - 1)
        /\ Cardinality(DOMAIN node_to_idx) = Cardinality(DOMAIN idx_to_node)
        /\ \A t \in DOMAIN node_to_idx :
            /\ node_to_idx[t] \in DOMAIN idx_to_node
            /\ idx_to_node[node_to_idx[t]] = t
        /\ \A i \in DOMAIN idx_to_node :
            /\ idx_to_node[i] \in DOMAIN node_to_idx
            /\ node_to_idx[idx_to_node[i]] = i
        /\ \A i \in 1..Len(triples) :
            /\ node_to_idx[triples[i].head] \in DOMAIN idx_to_node
            /\ node_to_idx[triples[i].tail] \in DOMAIN idx_to_node

\* C11 witness: a graph built from three triples over three tags, one tag
\* being the head of one triple and the tail of another, one triple repeated
\* in the reverse direction.
C11_Witness ==
    /\ Len(triples) = MaxTriples
    /\ Cardinality(DOMAIN node_to_idx) = 3
    /\ DOMAIN graph = DOMAIN idx_to_node
    /\ \E i, j \in 1..Len(triples) :
        /\ i # j
        /\ triples[i].head = triples[j].tail
        /\ triples[i].tail = triples[j].head
        /\ triples[i].head # triples[i].tail

\* C12: a Graph is never built from an empty triple sequence (construction
\* fails with an empty-input error instead of producing an empty graph).
C12_EmptyTriplesRejected ==
    ~(/\ triples = <<>>
      /\ DOMAIN idx_to_node = {}
      /\ DOMAIN node_to_idx = {}
      /\ DOMAIN graph = {})

\* the names of the neighbours of index n in the graph store
NeighbourTags(n) == {idx_to_node[w] : w \in Range(graph[n])}

\* C13: the degree of every tag equals the number of its distinct neighbour
\* tags, and inserting an edge that is already present again, in either
\* direction, changes no degree.
C13_DegreeIsDistinctNeighbours ==
    \A n \in DOMAIN graph :
        /\ degree(graph, n) = Cardinality(NeighbourTags(n))
        /\ \A m \in Range(graph[n]), x \in DOMAIN graph :
            /\ degree(add_edge(graph, n, m), x) = degree(graph, x)
            /\ degree(add_edge(graph, m, n), x) = degree(graph, x)

(***************************************************************************)
(* Properties of the Pipeline (SpecLatest, SpecQuery).                     *)
(***************************************************************************)
\* the documents whose tags or extra-tags contain the tag t
DocumentsWithTag(t) ==
    {i \in 1..Len(documents) :
        t \in Range(documents[i].tags) \cup Range(documents[i].extra_tags)}

\* C14: the document count stored for a tag, and reported as documentCount
\* of a node, is the number of documents whose tags and extra-tags contain
\* it, a document counting once however often it repeats the tag.
C14_DocumentCountIsDocuments ==
    /\ \A t \in Tags :
        DocumentCount(document_counts, t) = Cardinality(DocumentsWithTag(t))
    /\ op = "pipeline" =>
        \A i \in 1..Len(ret.graph.nodes) :
            ret.graph.nodes[i].documentCount
                = Cardinality(DocumentsWithTag(ret.graph.nodes[i].id))

\* C15: for count >= 0, get_latest_documents(count) returns the first
\* min(count, cache size) entries of the cache, in non-increasing date order,
\* and they are the most recent documents of the document set: no document
\* left out is more recent than a returned one.
C15_LatestReturnsMostRecent ==
    (op = "latest" /\ args.count >= 0) =>
        /\ ret = SubSeq(latest_documents, 1, Min2(args.count, Len(latest_documents)))
        /\ Len(ret) = Min2(args.count, Len(latest_documents))
        /\ \A i \in 1..(Len(ret) - 1) : DateKey(ret[i].date) >= DateKey(ret[i + 1].date)
        /\ \A i, j \in 1..Len(ret) : i # j => ret[i].url # ret[j].url
        /\ Range(ret) \subseteq Range(documents)
        /\ \A d \in Range(documents) \ Range(ret), r \in Range(ret) :
            DateKey(d.date) <= DateKey(r.date)

\* C15 witness: a request for fewer documents than the cache holds, on a
\* document set whose older document comes first, and a request for more
\* documents than the cache holds.
C15_Witness ==
    /\ op = "latest"
    /\ Len(documents) = MaxDocs
    /\ DateKey(documents[1].date) < DateKey(documents[2].date)
    /\ Len(latest_documents) = 2
    /\ \/ args.count = 1 /\ ret = <<documents[2]>>
       \/ args.count > Len(latest_documents) /\ ret = latest_documents

\* the tags and extra-tags of a list of documents, in order
RECURSIVE TagsOfDocuments(_)
TagsOfDocuments(docs) ==
    IF docs = <<>> THEN <<>>
    ELSE Head(docs).tags \o Head(docs).extra_tags \o TagsOfDocuments(Tail(docs))

\* the distinct tags of a list of documents that are not excluded, in the
\* order of their first appearance
DocumentSeeds(docs) ==
    Dedup(SelectSeq(TagsOfDocuments(docs), LAMBDA t : t \notin excluded_tags), <<>>)

\* C16: Pipeline.__call__ gives the assembler (a) the distinct non-excluded
\* tags and extra-tags of the retrieved documents, in order of first
\* appearance, cut to at most k_tags, as the SeedDocument list, and (b) all
\* the tags of the tag search, uncut, as the SeedQuery list.
C16_SeedsOfQuery ==
    op = "pipeline" =>
        /\ ret.documents = [i \in 1..Len(args.q.documents) |-> documents[args.q.documents[i]]]
        /\ ret.tags = SubSeq(DocumentSeeds(ret.documents), 1,
                             Min2(args.k_tags, Len(DocumentSeeds(ret.documents))))
        /\ Len(ret.tags) <= args.k_tags
        /\ ret.retrieved_tags = args.q.tags
        /\ Range(ret.tags) \cup Range(ret.retrieved_tags)
               \subseteq {ret.graph.nodes[i].id : i \in 1..Len(ret.graph.nodes)}
        /\ \A i \in 1..Len(ret.graph.nodes) :
            LET node == ret.graph.nodes[i]
            IN  /\ node.id \in Range(ret.retrieved_tags) => node.color = SeedQuery
                /\ node.id \in Range(ret.tags) \ Range(ret.retrieved_tags)
                       => node.color = SeedDocument
                /\ node.color \in {SeedDocument, SeedQuery}
                       => node.id \in Range(ret.tags) \cup Range(ret.retrieved_tags)

\* C16 witness: the retrieved documents bring an excluded tag and more
\* admissible tags than k_tags, and the tag search returns a further tag, so
\* that the seeds outnumber k_tags.
C16_Witness ==
    /\ op = "pipeline"
    /\ \E t \in Range(TagsOfDocuments(ret.documents)) : t \in excluded_tags
    /\ Len(DocumentSeeds(ret.documents)) > args.k_tags
    /\ args.k_tags >= 1
    /\ \E t \in Range(ret.retrieved_tags) : t \notin Range(ret.tags)
    /\ \E i \in 1..Len(ret.graph.nodes) : ret.graph.nodes[i].color = SeedQuery

(***************************************************************************)
(* Properties of Graph.expand (SpecExpander).                              *)
(***************************************************************************)
\* C17: expand of a tag absent from the tag index returns ([], []); expand of
\* a known tag returns as nodes the tag and the first min(k, number of
\* neighbours) of its direct neighbours, and one link per returned neighbour
\* from the tag to it, of value 1 and weight 0.5.
C17_ExpandReturnsDirectNeighbours ==
    op = "expand" =>
        IF args.node_id \notin DOMAIN node_to_idx
        THEN ret = [nodes |-> <<>>, links |-> <<>>]
        ELSE LET nb == graph[node_to_idx[args.node_id]]
                 m == Min2(args.k, Len(nb))
             IN  /\ Len(ret.links) = m
                 /\ \A i \in 1..m :
                     ret.links[i] = [source |-> args.node_id,
                                     target |-> idx_to_node[nb[i]],
                                     value |-> 1,
                                     weight |-> [num |-> 1, den |-> 2]]
                 /\ {ret.nodes[i].id : i \in 1..Len(ret.nodes)}
                        = {args.node_id} \cup {idx_to_node[nb[i]] : i \in 1..m}
                 /\ \A i, j \in 1..Len(ret.nodes) :
                     i # j => ret.nodes[i].id # ret.nodes[j].id

\* C17 witness: a known tag with more neighbours than k, k being at least 1.
C17_Witness ==
    /\ op = "expand"
    /\ args.node_id \in DOMAIN node_to_idx
    /\ args.k >= 1
    /\ Len(graph[node_to_idx[args.node_id]]) > args.k
    /\ Len(ret.nodes) = args.k + 1

(***************************************************************************)
(* Properties of get_tags_triples (SpecLatest: the triples of a Pipeline). *)
(***************************************************************************)
\* the pairs of tags at two positions of one document's tags + extra-tags
CoOccurring ==
    {<<AllTags(documents[d])[i], AllTags(documents[d])[j]>> :
        <<d, i, j>> \in {x \in (1..Len(documents)) \X (1..(MaxDocTags + MaxExtraTags))
                                 \X (1..(MaxDocTags + MaxExtraTags)) :
                            x[2] < x[3] /\ x[3] <= Len(AllTags(documents[x[1]]))}}

\* C20: in the triples of get_tags_triples every unordered tag pair appears
\* at most once, no triple holds an excluded tag, and every pair of
\* non-excluded tags that co-occur in a document is covered by a triple (and
\* every triple is such a pair).
C20_TriplesCoverPairsOnce ==
    /\ \A i, j \in 1..Len(triples) :
        i # j => {triples[i].head, triples[i].tail} # {triples[j].head, triples[j].tail}
    /\ \A i \in 1..Len(triples) :
        /\ triples[i].head \notin excluded_tags
        /\ triples[i].tail \notin excluded_tags
        /\ <<triples[i].head, triples[i].tail>> \in CoOccurring
    /\ \A p \in CoOccurring :
        (p[1] \notin excluded_tags /\ p[2] \notin excluded_tags)
        => \E i \in 1..Len(triples) : {triples[i].head, triples[i].tail} = {p[1], p[2]}

\* C20 witness: the same pair of tags is met in both orders and a document
\* pairs an excluded tag with another tag.
C20_Witness ==
    /\ \E p \in CoOccurring : p[1] # p[2] /\ <<p[2], p[1]>> \in CoOccurring
                              /\ p[1] \notin excluded_tags /\ p[2] \notin excluded_tags
    /\ \E p \in CoOccurring : p[1] \notin excluded_tags /\ p[2] \in excluded_tags
    /\ triples # <<>>

(***************************************************************************)
(* Properties of repeated builds and calls (SpecRepeat).                   *)
(***************************************************************************)
\* the position at which x first occurs in the sequence s
FirstAt(x, s) == CHOOSE i \in 1..Len(s) : s[i] = x /\ \A j \in 1..(i - 1) : s[j] # x

\* s lists the elements of the sequence met, each of them once, in the order
\* in which they first occur in met
InOrderOfFirstOccurrence(s, met) ==
    /\ Range(s) = Range(met)
    /\ \A i, j \in 1..Len(s) : i < j => FirstAt(s[i], met) < FirstAt(s[j], met)

\* the tags of the triple sequence as the constructor reads them: the heads
\* of all triples, then their tails
TagsAsRead ==
    [i \in 1..(2 * Len(triples)) |->
        IF i <= Len(triples) THEN triples[i].head ELSE triples[i - Len(triples)].tail]

\* the index of the Graph is the one the triple sequence fixes: the distinct
\* tags are numbered from 0 in the order in which they are first read, and
\* node_to_idx is the inverse
IndexFixedByTriples ==
    /\ DOMAIN idx_to_node = 0..(Cardinality(Range(TagsAsRead)) - 1)
    /\ InOrderOfFirstOccurrence([i \in 1..Cardinality(DOMAIN idx_to_node) |->
                                     idx_to_node[i - 1]], TagsAsRead)
    /\ DOMAIN node_to_idx = Range(TagsAsRead)
    /\ \A t \in DOMAIN node_to_idx : idx_to_node[node_to_idx[t]] = t

\* the sequences of seqs, one after the other
RECURSIVE Flatten(_)
Flatten(seqs) == IF Len(seqs) = 0 THEN <<>> ELSE seqs[1] \o Flatten(Tail(seqs))

\* the tags a call meets, in the order in which it meets them: the document
\* tags, the query tags, then the tags along the collected paths of the
\* response r
TagsAsMet(r) ==
    args.tags \o args.retrieved_tags
    \o [i \in 1..Len(Flatten(r.paths)) |-> idx_to_node[Flatten(r.paths)[i]]]

\* the unordered pairs of tags that are consecutive in the path p, in the
\* order of the path
StepsOf(p) == [i \in 1..(Len(p) - 1) |-> {idx_to_node[p[i]], idx_to_node[p[i + 1]]}]

\* the consecutive pairs of all collected paths of the response r, in order
StepsAsMet(r) == Flatten([p \in 1..Len(r.paths) |-> StepsOf(r.paths[p])])

\* the place, among the pairs of positions i < j of seeds in lexicographic
\* order, of the first pair that holds the ends of the path p
PairPlace(p, seeds) ==
    CHOOSE n \in 0..((Len(seeds) + 1) * (Len(seeds) + 1)) :
        /\ \E i, j \in 1..Len(seeds) :
              /\ i < j /\ seeds[i] = p[1] /\ seeds[j] = p[Len(p)]
              /\ n = i * (Len(seeds) + 1) + j
        /\ \A i, j \in 1..Len(seeds) :
              (i < j /\ seeds[i] = p[1] /\ seeds[j] = p[Len(p)])
                  => n <= i * (Len(seeds) + 1) + j

\* the order of the response r is the one its inputs fix: the nodes come in
\* the order in which their tags are met, the links in the order in which
\* their pairs are met along the paths, each link from the lower index to the
\* higher, the walks in the order of the seeds, and (for pairwise distinct
\* seeds) the searched paths in the order of the pairs of seeds
OrderFixedByInputs(r) ==
    /\ InOrderOfFirstOccurrence([i \in 1..Len(r.nodes) |-> r.nodes[i].id], TagsAsMet(r))
    /\ InOrderOfFirstOccurrence([i \in 1..Len(r.links) |->
                                     {r.links[i].source, r.links[i].target}],
                                 StepsAsMet(r))
    /\ \A i \in 1..Len(r.links) :
          node_to_idx[r.links[i].source] <= node_to_idx[r.links[i].target]
    /\ r.walked => \A i \in 1..Len(r.paths) : r.paths[i][1] = r.seeds[i]
    /\ (~r.walked /\ Cardinality(Range(r.seeds)) = Len(r.seeds)) =>
          \A p, q \in 1..Len(r.paths) :
              p < q => PairPlace(r.paths[p], r.seeds) <= PairPlace(r.paths[q], r.seeds)

\* C19: the index assignment of a Graph is fixed by its triple sequence (the
\* distinct tags numbered from 0 in the order in which they are first read,
\* heads before tails), so that building the Graph again from the same
\* triple sequence gives the same index assignment and the same graph; and
\* calling the Graph again with the same seed lists, k_yens and k_walk gives
\* the same node list and the same link list (same members, same order,
\* same values), whose order is the one the seed lists and the collected
\* paths fix.
C19_SameInputsSameOutputs ==
    /\ IndexFixedByTriples
    /\ op = "rebuild" =>
        /\ idx_to_node = ret.idx_to_node
        /\ node_to_idx = ret.node_to_idx
        /\ graph = ret.graph
    /\ op = "call_again" =>
        /\ ret.second.nodes = ret.first.nodes
        /\ ret.second.links = ret.first.links
        /\ ret.second.paths = ret.first.paths
        /\ ret.second.raised = ret.first.raised
        /\ OrderFixedByInputs(ret.first)
        /\ OrderFixedByInputs(ret.second)

\* C19 witness: a second call on three distinct known seeds, whose response
\* has at least three nodes and at least two links, one of them counted more
\* than once.
C19_Witness ==
    /\ op = "call_again"
    /\ Cardinality(Range(ret.first.seeds)) >= 3
    /\ Len(ret.second.links) >= 2
    /\ \E i \in 1..Len(ret.second.links) : ret.second.links[i].value >= 2
    /\ Len(ret.second.nodes) >= 3

(***************************************************************************)
(* Properties of the server (SpecServer).                                  *)
(***************************************************************************)
\* the result of the request r when it runs alone on the loaded pipeline
ResultAlone(r) ==
    CASE r.op = "latest" -> get_latest_documents(latest_documents, r.args.count)
      [] r.op = "search" -> SearchResponse(search(documents, r.args.q), r.args.sort)
      [] r.op = "query_with_graph" ->
            pipeline_call(graph, idx_to_node, node_to_idx, document_counts, documents,
                          excluded_tags, r.args.q, r.args.k_tags, r.args.k_yens,
                          r.args.k_walk)
      [] r.op = "plot" ->
            plot(graph, idx_to_node, node_to_idx, document_counts, documents,
                 excluded_tags, r.args.q, r.args.k_tags, r.args.k_yens, r.args.k_walk)
      [] r.op = "expand_node" ->
            expand(graph, idx_to_node, node_to_idx, document_counts,
                   r.args.node_id, r.args.k)

\* C18: whatever the interleaving of the requests of the clients, no step
\* changes the shared snapshot (tag index, graph store, document counts,
\* latest-documents cache) and every finished request holds the result it
\* has when it runs alone.
C18_QueriesLeaveSnapshotAlone ==
    [][/\ snapshot' = snapshot
       /\ \A c \in Clients :
            requests'[c].pc = "done" => requests'[c].ret = ResultAlone(requests'[c])]_vars

\* C18 witness: a client has finished a plot that has links while the other
\* client is between the two steps of an expand of a known tag.
C18_Witness ==
    \E c, d \in Clients :
        /\ c # d
        /\ requests[c].pc = "done"
        /\ requests[c].op = "plot"
        /\ requests[c].ret.links # <<>>
        /\ requests[d].pc = "running"
        /\ requests[d].op = "expand_node"
        /\ requests[d].local.idx # None

(***************************************************************************)
(* Properties of the construction of a Pipeline (SpecConstruct).           *)
(***************************************************************************)
\* C21: the 'extra-tags' field is optional: the construction of a Pipeline
\* over documents of which some have no 'extra-tags' raises nothing and
\* builds what it builds over the same documents with an empty 'extra-tags'
\* list, so that query_with_graph can run on it.
C21_ExtraTagsOptional ==
    op = "construct" =>
        /\ ~ret.raised
        /\ pipeline # None
        /\ document_counts = DocumentCounts(NoCounts, WithExtraTags(documents))

(***************************************************************************)
(* Properties of the collected paths and of the payloads (SpecAssembler,   *)
(* SpecPathFinder, SpecExpander).                                          *)
(***************************************************************************)
\* the distinct known seed indices of the running __call__
KnownSeeds == Range(ret.seeds)

\* the ids of the returned nodes
NodeIds == {ret.nodes[i].id : i \in 1..Len(ret.nodes)}

\* the tags of the path p
PathTags(p) == {idx_to_node[p[i]] : i \in 1..Len(p)}

\* C22: the bounded walks are made exactly when there is one known seed index
\* or the pairwise searches returned no path; the collected paths are then
\* the walks of the known seed indices, and otherwise they are exactly the
\* paths of the pairwise searches.  For a single known seed the nodes are the
\* seed tags and the tags of its walk, and a link is incident to the seed.
C22_WalkExactlyWhenAloneOrNoPath ==
    op = "call" =>
        /\ ret.walked <=> (Cardinality(KnownSeeds) = 1 \/ ret.searched = <<>>)
        /\ ret.walked =>
              /\ Range(ret.paths) = {walk(graph, s, args.k_walk) : s \in KnownSeeds}
              /\ Len(ret.paths) = Len(ret.seeds)
        /\ ~ret.walked => ret.paths = ret.searched
        /\ \A s \in KnownSeeds :
              KnownSeeds = {s} =>
                  /\ NodeIds = SeedTags \cup PathTags(walk(graph, s, args.k_walk))
                  /\ LinksAt(idx_to_node[s]) # {}

\* C22 witness: two distinct known seeds that no path joins, each of them
\* walked, and the walks are the collected paths.
C22_Witness ==
    /\ op = "call"
    /\ Cardinality(KnownSeeds) = 2
    /\ ret.searched = <<>>
    /\ ret.walked
    /\ Len(ret.paths) = 2
    /\ ret.paths[1] # ret.paths[2]

\* C23: yens(a, b, k) with a # b returns its paths in non-decreasing length
\* order, and when a and b are joined by an edge of the graph the first
\* returned path is the 2-node path [a, b].
C23_ShortestPathsFirst ==
    (op = "yens" /\ args.start # args.end) =>
        /\ \A i, j \in 1..Len(ret.paths) :
              i < j => Len(ret.paths[i]) <= Len(ret.paths[j])
        /\ InSeq(args.end, graph[args.start]) =>
              /\ ret.paths # <<>>
              /\ ret.paths[1] = <<args.start, args.end>>

\* C23 witness: a search between two adjacent indices that returned the
\* direct path and, after it, a 3-node path.
C23_Witness ==
    /\ op = "yens"
    /\ args.start # args.end
    /\ InSeq(args.end, graph[args.start])
    /\ Len(ret.paths) >= 2
    /\ Len(ret.paths[1]) = 2
    /\ Len(ret.paths[2]) = 3

\* the places <<p, i>> where the tags x and y are consecutive elements of a
\* collected path, in either direction
Occurrences(x, y) ==
    {pi \in UNION {{<<p, i>> : i \in 1..(Len(ret.paths[p]) - 1)} : p \in 1..Len(ret.paths)} :
        {idx_to_node[ret.paths[pi[1]][pi[2]]],
         idx_to_node[ret.paths[pi[1]][pi[2] + 1]]} = {x, y}}

\* the returned links that join the tags x and y
LinksJoining(x, y) ==
    {i \in 1..Len(ret.links) : {ret.links[i].source, ret.links[i].target} = {x, y}}

\* C24: the links hold exactly one link per unordered pair of tags that are
\* consecutive in some collected path, and the value of the link is the
\* number of such consecutive occurrences over all collected paths, in
\* either direction.
C24_OneLinkPerPairWithItsCount ==
    op = "call" =>
        /\ \A i \in 1..Len(ret.links) :
              {ret.links[i].source, ret.links[i].target} \subseteq Range(NodesOf(triples))
        /\ \A x, y \in Range(NodesOf(triples)) :
              /\ Cardinality(LinksJoining(x, y)) = IF Occurrences(x, y) = {} THEN 0 ELSE 1
              /\ \A i \in LinksJoining(x, y) :
                    ret.links[i].value = Cardinality(Occurrences(x, y))

\* C24 witness: two tags that are consecutive in one collected path in one
\* direction and in another in the opposite direction, joined by one link.
C24_Witness ==
    /\ op = "call"
    /\ \E p, q \in 1..Len(ret.paths) :
          /\ Len(ret.paths[p]) >= 2
          /\ Len(ret.paths[q]) >= 2
          /\ ret.paths[p][1] # ret.paths[p][2]
          /\ ret.paths[q][1] = ret.paths[p][2]
          /\ ret.paths[q][2] = ret.paths[p][1]
          /\ \E i \in 1..Len(ret.links) : ret.links[i].value >= 2

\* the tags that occur in some collected path
TagsInPaths == UNION {PathTags(ret.paths[p]) : p \in 1..Len(ret.paths)}

\* C25: a returned node has the PathIntermediate colour exactly when its tag
\* occurs in a collected path and is not a seed tag; a seed tag keeps its
\* seed colour also when it occurs in a path; the nodes are the seed tags and
\* the tags of the paths, and the degree of every node is the degree of its
\* tag in the graph (0 for a tag that is not in the graph).
C25_IntermediateIffInPathAndNotSeed ==
    op = "call" =>
        /\ NodeIds = SeedTags \cup TagsInPaths
        /\ \A i \in 1..Len(ret.nodes) :
              /\ ret.nodes[i].color = PathIntermediate
                    <=> (ret.nodes[i].id \in TagsInPaths \ SeedTags)
              /\ ret.nodes[i].id \in SeedTags =>
                    ret.nodes[i].color = LastColor(ret.nodes[i].id)
              /\ ret.nodes[i].degree =
                    IF ret.nodes[i].id \in DOMAIN node_to_idx
                    THEN degree(graph, node_to_idx[ret.nodes[i].id])
                    ELSE 0

\* C25 witness: a seed tag lies in the middle of a collected path of three
\* nodes, and a tag of a path that is no seed is returned as an intermediate
\* node.
C25_Witness ==
    /\ op = "call"
    /\ \E p \in 1..Len(ret.paths) :
          /\ Len(ret.paths[p]) = 3
          /\ idx_to_node[ret.paths[p][2]] \in SeedTags
    /\ \E i \in 1..Len(ret.nodes) : ret.nodes[i].color = PathIntermediate

\* the pairs of distinct indices that __call__ searches, as unordered pairs,
\* in the order of the searches
SearchedPairs ==
    SelectSeq([i \in 1..Len(Combinations2(ret.seeds)) |->
                  {Combinations2(ret.seeds)[i][1], Combinations2(ret.seeds)[i][2]}],
              LAMBDA pair : Cardinality(pair) = 2)

\* the links of the same call with every seed tag supplied once (a tag of
\* both lists as a query tag only)
LinksOfSeedsOnce ==
    assemble(graph, idx_to_node, node_to_idx, document_counts,
             SelectSeq(Dedup(args.tags, <<>>), LAMBDA t : ~InSeq(t, args.retrieved_tags)),
             Dedup(args.retrieved_tags, <<>>), args.k_yens, args.k_walk).links

SameLink(l, m) ==
    /\ l.source = m.source
    /\ l.target = m.target
    /\ l.value = m.value
    /\ l.weight.num * m.weight.den = m.weight.num * l.weight.den

\* C26: every unordered pair of distinct known seed indices is searched
\* once, and a seed tag supplied more than once yields the links, the values
\* and the weights of the call in which it is supplied once.
C26_RepeatedSeedSameLinks ==
    op = "call" =>
        /\ \A i, j \in 1..Len(SearchedPairs) :
              SearchedPairs[i] = SearchedPairs[j] => i = j
        /\ Len(ret.links) = Len(LinksOfSeedsOnce)
        /\ \A i \in 1..Len(ret.links) :
              \E j \in 1..Len(LinksOfSeedsOnce) : SameLink(ret.links[i], LinksOfSeedsOnce[j])

\* C27: every returned link, of a pairwise search or of a walk, joins two
\* tags that are adjacent in the graph (that are the head and the tail of
\* some triple).
C27_LinksJoinAdjacentTags ==
    op = "call" =>
        \A i \in 1..Len(ret.links) :
            \E n \in 1..Len(triples) :
                {triples[n].head, triples[n].tail}
                    = {ret.links[i].source, ret.links[i].target}

\* C28: in the payload of __call__ and of expand the node ids are tag names
\* and no two nodes have the same id, and the source and the target of every
\* link are tag names that are ids of nodes of the same payload.
C28_PayloadKeyedByTagName ==
    op \in {"call", "expand"} =>
        /\ NodeIds \subseteq SeedNames
        /\ \A i, j \in 1..Len(ret.nodes) : ret.nodes[i].id = ret.nodes[j].id => i = j
        /\ \A i \in 1..Len(ret.links) :
              /\ ret.links[i].source \in NodeIds
              /\ ret.links[i].target \in NodeIds

\* C28 witness: an expand whose payload holds two links to two neighbours
\* other than the expanded tag.
C28_Witness ==
    /\ op = "expand"
    /\ Len(ret.links) = 2
    /\ Len(ret.nodes) = 3

\* C29: no tag of the exclusion set is among the seed tags that
\* Pipeline.__call__ passes to the graph, neither among the tags of the
\* retrieved documents nor among the tags found by the tag search.
C29_NoExcludedSeed ==
    op = "pipeline" =>
        (Range(ret.tags) \cup Range(ret.retrieved_tags)) \cap excluded_tags = {}

(***************************************************************************)
(* Properties of the startup of the server (SpecStartup).                  *)
(***************************************************************************)
\* C30: the loading of the Pipeline at the startup event is complete before
\* a request is served: whenever a request of a client is being handled or
\* has been handled, Knowledge.start has returned and knowledge.pipeline is
\* the loaded Pipeline; after a failed startup no request is accepted.
C30_StartupBeforeQueries ==
    /\ \A c \in DOMAIN requests :
          requests[c].pc # "idle" => (op = "started" /\ pipeline = PipelineObject)
    /\ requests # NoRequests => op = "started"
    /\ op = "started" => pipeline = PipelineObject

\* C30 witness: after the startup a client is between the two steps of a
\* plot while the other has an expand answered.
C30_Witness ==
    /\ op = "started"
    /\ \E c, d \in DOMAIN requests :
          /\ requests[c].pc = "running"
          /\ requests[c].op = "plot"
          /\ requests[d].pc = "done"
          /\ requests[d].op = "expand_node"

====
